---- MODULE Spec2Model ----
(***************************************************************************)
(* RTXDI runtime: the host-side ReSTIR DI / GI contexts (frame index,      *)
(* resampling mode, reservoir buffer index selection) and the shader-side  *)
(* reservoir addressing helpers (checkerboard, block-linear addressing,    *)
(* permutation sampling).                                                  *)
(***************************************************************************)
EXTENDS Integers, Sequences, FiniteSets, TLC

VARIABLES
    driven,     \* which context object the host drives in this behaviour: "DI" or "GI"
                \* ("none" while the shader helpers are exercised)
    di,         \* the ReSTIRDIContext object (record of its m_ fields)
    gi,         \* the ReSTIRGIContext object (record of its m_ fields)
    lastCall,   \* the most recent call made on the driven context ("ctor" after construction)
    before,     \* the driven context as it was just before the most recent call
    frames,     \* the driven context after each of the latest SetFrameIndex calls made
                \* back to back (no SetResamplingMode in between), newest last, at most FrameWindow
    call,       \* shader harness: the pending invocation (function name and arguments)
    ret         \* shader harness: the values returned so far by the invocation's steps

vars == <<driven, di, gi, lastCall, before, frames, call, ret>>

ctxVars == <<driven, di, gi, lastCall, before, frames>>
shaderVars == <<call, ret>>

----------------------------------------------------------------------------
(* Bounds of the model *)

\* SetFrameIndex arguments are drawn from 0..MaxFrame
MaxFrame == 3

\* Number of consecutive frames remembered in `frames`
FrameWindow == 3

FrameIndices == 0 .. MaxFrame

----------------------------------------------------------------------------
(* Enumerations *)

\* enum class ReSTIRDI_ResamplingMode / ReSTIRGI_ResamplingMode
ResamplingModes == {"None", "Temporal", "Spatial", "TemporalAndSpatial", "FusedSpatiotemporal"}

\* enum class CheckerboardMode
CheckerboardModes == {"Off", "Black", "White"}

\* const uint32_t ReSTIRDIContext::NumReservoirBuffers = 3
NumReservoirBuffers == 3

\* static constexpr uint32_t c_NumReSTIRGIReservoirBuffers = 2
c_NumReSTIRGIReservoirBuffers == 2

\* ReSTIRDIStaticParameters::NeighborOffsetCount default
NeighborOffsetCount == 8192

\* JenkinsHash(a): a fixed function of a 32-bit value, declared in RtxdiUtils.h;
\* kept symbolic (a tagged value distinct from every
\* plain number), so hashed values are equal exactly when their arguments are.
JenkinsHash(a) == [hashed |-> TRUE, of |-> a]

\* A plain (un-hashed) 32-bit value, as written by a `= {}` initialisation.
PlainUint(a) == [hashed |-> FALSE, of |-> a]

----------------------------------------------------------------------------
(* ReSTIRDIContext *)

GetDefaultReSTIRDIBufferIndices ==
    [ initialSamplingOutputBufferIndex    |-> 0,
      temporalResamplingInputBufferIndex  |-> 0,
      temporalResamplingOutputBufferIndex |-> 0,
      spatialResamplingInputBufferIndex   |-> 0,
      spatialResamplingOutputBufferIndex  |-> 0,
      shadingInputBufferIndex             |-> 0 ]

\* Defective variant: shading always reads the spatial output, whatever the mode
ReSTIRDIContext_UpdateBufferIndices_AlwaysSpatialOut(c) ==
    LET last == c.m_lastFrameOutputReservoir
        mode == c.m_resamplingMode
        useTemporalResampling == mode \in {"Temporal", "TemporalAndSpatial", "FusedSpatiotemporal"}
        b0 == c.m_bufferIndices
        b1 == IF mode = "FusedSpatiotemporal"
              THEN [b0 EXCEPT
                      !.initialSamplingOutputBufferIndex = (last + 1) % NumReservoirBuffers,
                      !.temporalResamplingInputBufferIndex = last,
                      !.shadingInputBufferIndex = (last + 1) % NumReservoirBuffers]
              ELSE LET initOut == (last + 1) % NumReservoirBuffers
                       tIn  == last
                       tOut == (tIn + 1) % NumReservoirBuffers
                       sIn  == IF useTemporalResampling THEN tOut ELSE initOut
                       sOut == (sIn + 1) % NumReservoirBuffers
                   IN [ initialSamplingOutputBufferIndex    |-> initOut,
                        temporalResamplingInputBufferIndex  |-> tIn,
                        temporalResamplingOutputBufferIndex |-> tOut,
                        spatialResamplingInputBufferIndex   |-> sIn,
                        spatialResamplingOutputBufferIndex  |-> sOut,
                        shadingInputBufferIndex |-> sOut ]
    IN [c EXCEPT !.m_bufferIndices = b1,
                 !.m_currentFrameOutputReservoir = b1.shadingInputBufferIndex]

\* Defective variant: the temporal pass writes the slice it reads
ReSTIRDIContext_UpdateBufferIndices_InPlace(c) ==
    LET last == c.m_lastFrameOutputReservoir
        mode == c.m_resamplingMode
        useTemporalResampling == mode \in {"Temporal", "TemporalAndSpatial", "FusedSpatiotemporal"}
        useSpatialResampling == mode \in {"Spatial", "TemporalAndSpatial", "FusedSpatiotemporal"}
        b0 == c.m_bufferIndices
        b1 == IF mode = "FusedSpatiotemporal"
              THEN [b0 EXCEPT
                      !.initialSamplingOutputBufferIndex = (last + 1) % NumReservoirBuffers,
                      !.temporalResamplingInputBufferIndex = last,
                      !.shadingInputBufferIndex = (last + 1) % NumReservoirBuffers]
              ELSE LET initOut == (last + 1) % NumReservoirBuffers
                       tIn  == last
                       tOut == tIn
                       sIn  == IF useTemporalResampling THEN tOut ELSE initOut
                       sOut == (sIn + 1) % NumReservoirBuffers
                   IN [ initialSamplingOutputBufferIndex    |-> initOut,
                        temporalResamplingInputBufferIndex  |-> tIn,
                        temporalResamplingOutputBufferIndex |-> tOut,
                        spatialResamplingInputBufferIndex   |-> sIn,
                        spatialResamplingOutputBufferIndex  |-> sOut,
                        shadingInputBufferIndex |-> IF useSpatialResampling THEN sOut ELSE tOut ]
    IN [c EXCEPT !.m_bufferIndices = b1,
                 !.m_currentFrameOutputReservoir = b1.shadingInputBufferIndex]

\* Defective variant: the fused pass ping-pongs between two slices only
ReSTIRDIContext_UpdateBufferIndices_FusedPingPong(c) ==
    LET last == c.m_lastFrameOutputReservoir
        mode == c.m_resamplingMode
        useTemporalResampling == mode \in {"Temporal", "TemporalAndSpatial", "FusedSpatiotemporal"}
        useSpatialResampling == mode \in {"Spatial", "TemporalAndSpatial", "FusedSpatiotemporal"}
        b0 == c.m_bufferIndices
        b1 == IF mode = "FusedSpatiotemporal"
              THEN [b0 EXCEPT
                      !.initialSamplingOutputBufferIndex = (last + 1) % 2,
                      !.temporalResamplingInputBufferIndex = last,
                      !.shadingInputBufferIndex = (last + 1) % 2]
              ELSE LET initOut == (last + 1) % NumReservoirBuffers
                       tIn  == last
                       tOut == (tIn + 1) % NumReservoirBuffers
                       sIn  == IF useTemporalResampling THEN tOut ELSE initOut
                       sOut == (sIn + 1) % NumReservoirBuffers
                   IN [ initialSamplingOutputBufferIndex    |-> initOut,
                        temporalResamplingInputBufferIndex  |-> tIn,
                        temporalResamplingOutputBufferIndex |-> tOut,
                        spatialResamplingInputBufferIndex   |-> sIn,
                        spatialResamplingOutputBufferIndex  |-> sOut,
                        shadingInputBufferIndex |-> IF useSpatialResampling THEN sOut ELSE tOut ]
    IN [c EXCEPT !.m_bufferIndices = b1,
                 !.m_currentFrameOutputReservoir = b1.shadingInputBufferIndex]

\* void ReSTIRDIContext::UpdateBufferIndices()
\* In FusedSpatiotemporal mode only three fields are assigned; the temporal output
\* and both spatial fields keep whatever the previous update left in them.
ReSTIRDIContext_UpdateBufferIndices(c) ==
    LET last == c.m_lastFrameOutputReservoir
        mode == c.m_resamplingMode
        useTemporalResampling == mode \in {"Temporal", "TemporalAndSpatial", "FusedSpatiotemporal"}
        useSpatialResampling == mode \in {"Spatial", "TemporalAndSpatial", "FusedSpatiotemporal"}
        b0 == c.m_bufferIndices
        b1 == IF mode = "FusedSpatiotemporal"
              THEN [b0 EXCEPT
                      !.initialSamplingOutputBufferIndex = (last + 1) % NumReservoirBuffers,
                      !.temporalResamplingInputBufferIndex = last,
                      !.shadingInputBufferIndex = (last + 1) % NumReservoirBuffers]
              ELSE LET initOut == (last + 1) % NumReservoirBuffers
                       tIn  == last
                       tOut == (tIn + 1) % NumReservoirBuffers
                       sIn  == IF useTemporalResampling THEN tOut ELSE initOut
                       sOut == (sIn + 1) % NumReservoirBuffers
                   IN [ initialSamplingOutputBufferIndex    |-> initOut,
                        temporalResamplingInputBufferIndex  |-> tIn,
                        temporalResamplingOutputBufferIndex |-> tOut,
                        spatialResamplingInputBufferIndex   |-> sIn,
                        spatialResamplingOutputBufferIndex  |-> sOut,
                        shadingInputBufferIndex |-> IF useSpatialResampling THEN sOut ELSE tOut ]
    IN [c EXCEPT !.m_bufferIndices = b1,
                 !.m_currentFrameOutputReservoir = b1.shadingInputBufferIndex]

\* Defective variant: the field is derived from the mode alone, the frame parity is dropped
ReSTIRDIContext_UpdateCheckerboardField_NoParity(c) ==
    LET field == CASE c.m_staticParams.CheckerboardSamplingMode = "Black" -> 1
                   [] c.m_staticParams.CheckerboardSamplingMode = "White" -> 2
                   [] OTHER -> 0
    IN [c EXCEPT !.m_runtimeParams.activeCheckerboardField = field]

\* Defective variant: the field changes every second frame only
ReSTIRDIContext_UpdateCheckerboardField_EverySecondFrame(c) ==
    LET odd == ((c.m_frameIndex \div 2) % 2) = 1
        field == CASE c.m_staticParams.CheckerboardSamplingMode = "Black" -> (IF odd THEN 1 ELSE 2)
                   [] c.m_staticParams.CheckerboardSamplingMode = "White" -> (IF odd THEN 2 ELSE 1)
                   [] OTHER -> 0
    IN [c EXCEPT !.m_runtimeParams.activeCheckerboardField = field]

\* void ReSTIRDIContext::UpdateCheckerboardField()
ReSTIRDIContext_UpdateCheckerboardField(c) ==
    LET odd == (c.m_frameIndex % 2) = 1
        field == CASE c.m_staticParams.CheckerboardSamplingMode = "Black" -> (IF odd THEN 1 ELSE 2)
                   [] c.m_staticParams.CheckerboardSamplingMode = "White" -> (IF odd THEN 2 ELSE 1)
                   [] OTHER -> 0
    IN [c EXCEPT !.m_runtimeParams.activeCheckerboardField = field]

\* ReSTIRDI_TemporalResamplingParameters GetDefaultReSTIRDITemporalResamplingParams():
\* `params = {}` zeroes uniformRandomNumber; of the other fields the model keeps one
GetDefaultReSTIRDITemporalResamplingParams ==
    [ uniformRandomNumber |-> PlainUint(0), enablePermutationSampling |-> TRUE ]

\* ReSTIRDIContext::ReSTIRDIContext(const ReSTIRDIStaticParameters& params)
ReSTIRDIContext_ctor(params) ==
    LET c0 == [ m_lastFrameOutputReservoir    |-> 0,
                m_currentFrameOutputReservoir |-> 0,
                m_frameIndex                  |-> 0,
                m_staticParams                |-> params,
                m_resamplingMode              |-> "TemporalAndSpatial",
                m_runtimeParams               |-> [ activeCheckerboardField |-> 0,
                                                    neighborOffsetMask |-> 0 ],
                m_bufferIndices               |-> GetDefaultReSTIRDIBufferIndices,
                m_temporalResamplingParams    |-> GetDefaultReSTIRDITemporalResamplingParams ]
        c1 == ReSTIRDIContext_UpdateCheckerboardField(c0)
        c2 == [c1 EXCEPT !.m_runtimeParams.neighborOffsetMask = params.NeighborOffsetCount - 1]
    IN ReSTIRDIContext_UpdateBufferIndices(c2)

\* Defective variant: SetFrameIndex forgets to latch the previous frame's output slice
ReSTIRDIContext_SetFrameIndex_NoLatch(c, frameIndex) ==
    LET c1 == [c EXCEPT !.m_frameIndex = frameIndex,
                        !.m_temporalResamplingParams.uniformRandomNumber = JenkinsHash(frameIndex)]
    IN ReSTIRDIContext_UpdateCheckerboardField(ReSTIRDIContext_UpdateBufferIndices(c1))

\* void ReSTIRDIContext::SetFrameIndex(uint32_t frameIndex)
ReSTIRDIContext_SetFrameIndex(c, frameIndex) ==
    LET c1 == [c EXCEPT !.m_frameIndex = frameIndex,
                        !.m_temporalResamplingParams.uniformRandomNumber = JenkinsHash(frameIndex),
                        !.m_lastFrameOutputReservoir = c.m_currentFrameOutputReservoir]
    IN ReSTIRDIContext_UpdateCheckerboardField(ReSTIRDIContext_UpdateBufferIndices(c1))

\* void ReSTIRDIContext::SetResamplingMode(ReSTIRDI_ResamplingMode resamplingMode)
ReSTIRDIContext_SetResamplingMode(c, resamplingMode) ==
    ReSTIRDIContext_UpdateBufferIndices([c EXCEPT !.m_resamplingMode = resamplingMode])

\* void ReSTIRDIContext::SetTemporalResamplingParameters(
\*     const ReSTIRDI_TemporalResamplingParameters& temporalResamplingParams)
ReSTIRDIContext_SetTemporalResamplingParameters(c, temporalResamplingParams) ==
    [c EXCEPT !.m_temporalResamplingParams =
         [ temporalResamplingParams EXCEPT
             !.uniformRandomNumber = JenkinsHash(c.m_frameIndex) ]]

----------------------------------------------------------------------------
(* ReSTIRGIContext *)

\* `ReSTIRGI_BufferIndices bufferIndices = {}` zeroes every field, the final
\* shading index included
GetDefaultReSTIRGIBufferIndices ==
    [ secondarySurfaceReSTIRDIOutputBufferIndex |-> 0,
      temporalResamplingInputBufferIndex        |-> 0,
      temporalResamplingOutputBufferIndex       |-> 0,
      spatialResamplingInputBufferIndex         |-> 0,
      spatialResamplingOutputBufferIndex        |-> 0,
      finalShadingInputBufferIndex              |-> 0 ]

\* C++ `!x` on a uint32_t, converted back to uint32_t
LogicalNot(x) == IF x = 0 THEN 1 ELSE 0

\* Defective variant: the temporal and fused passes read the slice they write
ReSTIRGIContext_UpdateBufferIndices_NoFlip(c) ==
    LET b == c.m_bufferIndices
        dst == c.m_frameIndex % 2
        b1 == CASE c.m_resamplingMode = "None" ->
                     [b EXCEPT !.secondarySurfaceReSTIRDIOutputBufferIndex = 0,
                               !.finalShadingInputBufferIndex = 0]
                [] c.m_resamplingMode = "Temporal" ->
                     [b EXCEPT !.secondarySurfaceReSTIRDIOutputBufferIndex = dst,
                               !.temporalResamplingInputBufferIndex = dst,
                               !.temporalResamplingOutputBufferIndex = dst,
                               !.finalShadingInputBufferIndex = dst]
                [] c.m_resamplingMode = "Spatial" ->
                     [b EXCEPT !.secondarySurfaceReSTIRDIOutputBufferIndex = 0,
                               !.spatialResamplingInputBufferIndex = 0,
                               !.spatialResamplingOutputBufferIndex = 1,
                               !.finalShadingInputBufferIndex = 1]
                [] c.m_resamplingMode = "TemporalAndSpatial" ->
                     [b EXCEPT !.secondarySurfaceReSTIRDIOutputBufferIndex = 0,
                               !.temporalResamplingInputBufferIndex = 1,
                               !.temporalResamplingOutputBufferIndex = 0,
                               !.spatialResamplingInputBufferIndex = 0,
                               !.spatialResamplingOutputBufferIndex = 1,
                               !.finalShadingInputBufferIndex = 1]
                [] c.m_resamplingMode = "FusedSpatiotemporal" ->
                     [b EXCEPT !.secondarySurfaceReSTIRDIOutputBufferIndex = dst,
                               !.temporalResamplingInputBufferIndex = dst,
                               !.spatialResamplingOutputBufferIndex = dst,
                               !.finalShadingInputBufferIndex = dst]
    IN [c EXCEPT !.m_bufferIndices = b1]

\* Defective variant: the destination slice ignores the frame index
ReSTIRGIContext_UpdateBufferIndices_FixedDst(c) ==
    LET b == c.m_bufferIndices
        dst == 0
        b1 == CASE c.m_resamplingMode = "None" ->
                     [b EXCEPT !.secondarySurfaceReSTIRDIOutputBufferIndex = 0,
                               !.finalShadingInputBufferIndex = 0]
                [] c.m_resamplingMode = "Temporal" ->
                     [b EXCEPT !.secondarySurfaceReSTIRDIOutputBufferIndex = dst,
                               !.temporalResamplingInputBufferIndex = LogicalNot(dst),
                               !.temporalResamplingOutputBufferIndex = dst,
                               !.finalShadingInputBufferIndex = dst]
                [] c.m_resamplingMode = "Spatial" ->
                     [b EXCEPT !.secondarySurfaceReSTIRDIOutputBufferIndex = 0,
                               !.spatialResamplingInputBufferIndex = 0,
                               !.spatialResamplingOutputBufferIndex = 1,
                               !.finalShadingInputBufferIndex = 1]
                [] c.m_resamplingMode = "TemporalAndSpatial" ->
                     [b EXCEPT !.secondarySurfaceReSTIRDIOutputBufferIndex = 0,
                               !.temporalResamplingInputBufferIndex = 1,
                               !.temporalResamplingOutputBufferIndex = 0,
                               !.spatialResamplingInputBufferIndex = 0,
                               !.spatialResamplingOutputBufferIndex = 1,
                               !.finalShadingInputBufferIndex = 1]
                [] c.m_resamplingMode = "FusedSpatiotemporal" ->
                     [b EXCEPT !.secondarySurfaceReSTIRDIOutputBufferIndex = dst,
                               !.temporalResamplingInputBufferIndex = LogicalNot(dst),
                               !.spatialResamplingOutputBufferIndex = dst,
                               !.finalShadingInputBufferIndex = dst]
    IN [c EXCEPT !.m_bufferIndices = b1]

\* void ReSTIRGIContext::UpdateBufferIndices()
\* Each case assigns only the fields its mode uses; the others keep their values.
ReSTIRGIContext_UpdateBufferIndices(c) ==
    LET b == c.m_bufferIndices
        dst == c.m_frameIndex % 2     \* m_frameIndex & 1
        b1 == CASE c.m_resamplingMode = "None" ->
                     [b EXCEPT !.secondarySurfaceReSTIRDIOutputBufferIndex = 0,
                               !.finalShadingInputBufferIndex = 0]
                [] c.m_resamplingMode = "Temporal" ->
                     [b EXCEPT !.secondarySurfaceReSTIRDIOutputBufferIndex = dst,
                               !.temporalResamplingInputBufferIndex = LogicalNot(dst),
                               !.temporalResamplingOutputBufferIndex = dst,
                               !.finalShadingInputBufferIndex = dst]
                [] c.m_resamplingMode = "Spatial" ->
                     [b EXCEPT !.secondarySurfaceReSTIRDIOutputBufferIndex = 0,
                               !.spatialResamplingInputBufferIndex = 0,
                               !.spatialResamplingOutputBufferIndex = 1,
                               !.finalShadingInputBufferIndex = 1]
                [] c.m_resamplingMode = "TemporalAndSpatial" ->
                     [b EXCEPT !.secondarySurfaceReSTIRDIOutputBufferIndex = 0,
                               !.temporalResamplingInputBufferIndex = 1,
                               !.temporalResamplingOutputBufferIndex = 0,
                               !.spatialResamplingInputBufferIndex = 0,
                               !.spatialResamplingOutputBufferIndex = 1,
                               !.finalShadingInputBufferIndex = 1]
                [] c.m_resamplingMode = "FusedSpatiotemporal" ->
                     [b EXCEPT !.secondarySurfaceReSTIRDIOutputBufferIndex = dst,
                               !.temporalResamplingInputBufferIndex = LogicalNot(dst),
                               !.spatialResamplingOutputBufferIndex = dst,
                               !.finalShadingInputBufferIndex = dst]
    IN [c EXCEPT !.m_bufferIndices = b1]

\* ReSTIRGI_TemporalResamplingParameters GetDefaultReSTIRGITemporalResamplingParams():
\* `params = {}` zeroes uniformRandomNumber; of the other fields the model keeps one
GetDefaultReSTIRGITemporalResamplingParams ==
    [ uniformRandomNumber |-> PlainUint(0), enablePermutationSampling |-> FALSE ]

\* ReSTIRGIContext::ReSTIRGIContext(const ReSTIRGIStaticParameters& staticParams)
\* The constructor body is empty: UpdateBufferIndices is not called.
ReSTIRGIContext_ctor(staticParams) ==
    [ m_staticParams             |-> staticParams,
      m_frameIndex               |-> 0,
      m_resamplingMode           |-> "None",
      m_bufferIndices            |-> GetDefaultReSTIRGIBufferIndices,
      m_temporalResamplingParams |-> GetDefaultReSTIRGITemporalResamplingParams ]

\* void ReSTIRGIContext::SetFrameIndex(uint32_t frameIndex)
ReSTIRGIContext_SetFrameIndex(c, frameIndex) ==
    ReSTIRGIContext_UpdateBufferIndices(
        [c EXCEPT !.m_frameIndex = frameIndex,
                  !.m_temporalResamplingParams.uniformRandomNumber = JenkinsHash(frameIndex)])

\* void ReSTIRGIContext::SetResamplingMode(ReSTIRGI_ResamplingMode resamplingMode)
ReSTIRGIContext_SetResamplingMode(c, resamplingMode) ==
    ReSTIRGIContext_UpdateBufferIndices([c EXCEPT !.m_resamplingMode = resamplingMode])

\* void ReSTIRGIContext::SetTemporalResamplingParameters(
\*     const ReSTIRGI_TemporalResamplingParameters& temporalResamplingParams)
ReSTIRGIContext_SetTemporalResamplingParameters(c, temporalResamplingParams) ==
    [c EXCEPT !.m_temporalResamplingParams =
         [ temporalResamplingParams EXCEPT
             !.uniformRandomNumber = JenkinsHash(c.m_frameIndex) ]]

----------------------------------------------------------------------------
(* The host driving one context *)

\* The idle shader harness (no invocation pending)
NoCall == [fn |-> "none"]

\* Slide the window of back-to-back frames
PushFrame(c) ==
    LET s == Append(frames, c)
    IN IF Len(s) > FrameWindow THEN Tail(s) ELSE s

CtxInit ==
    /\ driven \in {"DI", "GI"}
    /\ \E cb \in CheckerboardModes :
          /\ di = ReSTIRDIContext_ctor([ CheckerboardSamplingMode |-> cb,
                                          NeighborOffsetCount |-> NeighborOffsetCount ])
          /\ gi = ReSTIRGIContext_ctor([ CheckerboardSamplingMode |-> cb ])
    /\ lastCall = "ctor"
    /\ before = IF driven = "DI" THEN di ELSE gi
    /\ frames = << >>
    /\ call = NoCall
    /\ ret = << >>

DI_SetFrameIndex ==
    /\ driven = "DI"
    /\ \E frameIndex \in FrameIndices :
          di' = ReSTIRDIContext_SetFrameIndex(di, frameIndex)
    /\ lastCall' = "SetFrameIndex"
    /\ before' = di
    /\ frames' = PushFrame(di')
    /\ UNCHANGED <<driven, gi, call, ret>>

DI_SetResamplingMode ==
    /\ driven = "DI"
    /\ \E resamplingMode \in ResamplingModes :
          di' = ReSTIRDIContext_SetResamplingMode(di, resamplingMode)
    /\ lastCall' = "SetResamplingMode"
    /\ before' = di
    /\ frames' = << >>
    /\ UNCHANGED <<driven, gi, call, ret>>

\* The structures a caller hands to SetTemporalResamplingParameters: any flag, and a
\* uniformRandomNumber of its own (0 as left by `= {}`, or some other value)
SuppliedTemporalResamplingParams ==
    [ uniformRandomNumber : {PlainUint(0), PlainUint(7)},
      enablePermutationSampling : BOOLEAN ]

DI_SetTemporalResamplingParameters ==
    /\ driven = "DI"
    /\ \E temporalResamplingParams \in SuppliedTemporalResamplingParams :
          di' = ReSTIRDIContext_SetTemporalResamplingParameters(di, temporalResamplingParams)
    /\ lastCall' = "SetTemporalResamplingParameters"
    /\ before' = di
    /\ frames' = << >>
    /\ UNCHANGED <<driven, gi, call, ret>>

GI_SetFrameIndex ==
    /\ driven = "GI"
    /\ \E frameIndex \in FrameIndices :
          gi' = ReSTIRGIContext_SetFrameIndex(gi, frameIndex)
    /\ lastCall' = "SetFrameIndex"
    /\ before' = gi
    /\ frames' = PushFrame(gi')
    /\ UNCHANGED <<driven, di, call, ret>>

GI_SetResamplingMode ==
    /\ driven = "GI"
    /\ \E resamplingMode \in ResamplingModes :
          gi' = ReSTIRGIContext_SetResamplingMode(gi, resamplingMode)
    /\ lastCall' = "SetResamplingMode"
    /\ before' = gi
    /\ frames' = << >>
    /\ UNCHANGED <<driven, di, call, ret>>

GI_SetTemporalResamplingParameters ==
    /\ driven = "GI"
    /\ \E temporalResamplingParams \in SuppliedTemporalResamplingParams :
          gi' = ReSTIRGIContext_SetTemporalResamplingParameters(gi, temporalResamplingParams)
    /\ lastCall' = "SetTemporalResamplingParameters"
    /\ before' = gi
    /\ frames' = << >>
    /\ UNCHANGED <<driven, di, call, ret>>

CtxNext ==
    \/ DI_SetFrameIndex
    \/ DI_SetResamplingMode
    \/ DI_SetTemporalResamplingParameters
    \/ GI_SetFrameIndex
    \/ GI_SetResamplingMode
    \/ GI_SetTemporalResamplingParameters

SpecCtx == CtxInit /\ [][CtxNext]_vars

----------------------------------------------------------------------------
(* 32-bit values of the shader code *)

\* A uint is held as two 16-bit limbs, [hi, lo], value hi * 2^16 + lo, so that the
\* whole 32-bit range and its wrap-around are representable.
Limb == 2^16

\* uint(i): conversion of an int to uint keeps the two's complement bit pattern
ToUint(i) ==
    IF i >= 0
    THEN [hi |-> i \div Limb, lo |-> i % Limb]
    ELSE LET j == (i + 2147483647) + 1      \* i + 2^31, the low 31 bits
         IN [hi |-> 32768 + (j \div Limb), lo |-> j % Limb]

\* int(u): conversion of a uint to int keeps the bit pattern
ToInt(u) ==
    IF u.hi < 32768
    THEN u.hi * Limb + u.lo
    ELSE (((u.hi - 32768) * Limb + u.lo) - 2147483647) - 1

\* u + v on uint, modulo 2^32
UintAdd(u, v) ==
    LET l == u.lo + v.lo
    IN [hi |-> (u.hi + v.hi + (l \div Limb)) % Limb, lo |-> l % Limb]

\* u >> 1 on uint (logical shift)
UintShr1(u) == [hi |-> u.hi \div 2, lo |-> (u.lo \div 2) + (u.hi % 2) * 32768]

\* u << 1 on uint, modulo 2^32
UintShl1(u) == [hi |-> (2 * u.hi + (u.lo \div 32768)) % Limb, lo |-> (2 * u.lo) % Limb]

\* u & 1
UintAnd1(u) == u.lo % 2

\* uint2(int2) and int2(uint2), component-wise
ToUint2(p) == [x |-> ToUint(p.x), y |-> ToUint(p.y)]
ToInt2(u)  == [x |-> ToInt(u.x), y |-> ToInt(u.y)]

\* x ^ 3 on a two's complement int: the two low bits are flipped (% is the floor modulus)
Xor3(x) == (x - (x % 4)) + (3 - (x % 4))

----------------------------------------------------------------------------
(* Checkerboard.hlsli *)

\* bool RTXDI_IsActiveCheckerboardPixel(uint2 pixelPosition, bool previousFrame,
\*                                      uint activeCheckerboardField)
RTXDI_IsActiveCheckerboardPixel(pixelPosition, previousFrame, activeCheckerboardField) ==
    IF activeCheckerboardField = 0
    THEN TRUE
    ELSE UintAnd1(UintAdd(UintAdd(pixelPosition.x, pixelPosition.y),
                          ToUint(IF previousFrame THEN 1 ELSE 0)))
            = activeCheckerboardField % 2

\* Defective variant: the previous-frame shift is field*2 - 2 (0 or +2), which keeps the parity
RTXDI_ActivateCheckerboardPixel_uint2_EvenShift(pixelPosition, previousFrame, activeCheckerboardField) ==
    IF RTXDI_IsActiveCheckerboardPixel(pixelPosition, previousFrame, activeCheckerboardField)
    THEN pixelPosition
    ELSE IF previousFrame
         THEN [pixelPosition EXCEPT !.x = UintAdd(@, ToUint(activeCheckerboardField * 2 - 2))]
         ELSE [pixelPosition EXCEPT !.x = UintAdd(@, ToUint(IF UintAnd1(pixelPosition.y) # 0 THEN 1 ELSE -1))]

\* void RTXDI_ActivateCheckerboardPixel(inout uint2 pixelPosition, bool previousFrame,
\*                                      uint activeCheckerboardField)
\* The int shift is converted to uint and added modulo 2^32.
RTXDI_ActivateCheckerboardPixel_uint2(pixelPosition, previousFrame, activeCheckerboardField) ==
    IF RTXDI_IsActiveCheckerboardPixel(pixelPosition, previousFrame, activeCheckerboardField)
    THEN pixelPosition
    ELSE IF previousFrame
         THEN [pixelPosition EXCEPT !.x = UintAdd(@, ToUint(activeCheckerboardField * 2 - 3))]
         ELSE [pixelPosition EXCEPT !.x = UintAdd(@, ToUint(IF UintAnd1(pixelPosition.y) # 0 THEN 1 ELSE -1))]

\* void RTXDI_ActivateCheckerboardPixel(inout int2 pixelPosition, bool previousFrame,
\*                                      uint activeCheckerboardField)
\* The overload every resampling pass calls: convert to uint2, activate, convert back.
RTXDI_ActivateCheckerboardPixel_int2(pixelPosition, previousFrame, activeCheckerboardField) ==
    ToInt2(RTXDI_ActivateCheckerboardPixel_uint2(ToUint2(pixelPosition), previousFrame,
                                                 activeCheckerboardField))

----------------------------------------------------------------------------
(* ReservoirAddressing.hlsli *)

\* RTXDI_RESERVOIR_BLOCK_SIZE
RTXDI_RESERVOIR_BLOCK_SIZE == 16

\* uint2 RTXDI_PixelPosToReservoirPos(uint2 pixelPosition, uint activeCheckerboardField)
RTXDI_PixelPosToReservoirPos(pixelPosition, activeCheckerboardField) ==
    IF activeCheckerboardField = 0
    THEN pixelPosition
    ELSE [x |-> UintShr1(pixelPosition.x), y |-> pixelPosition.y]

\* Defective variant: the column parity ignores the active field
RTXDI_ReservoirPosToPixelPos_NoField(reservoirIndex, activeCheckerboardField) ==
    IF activeCheckerboardField = 0
    THEN reservoirIndex
    ELSE LET pixelPosition == [x |-> UintShl1(reservoirIndex.x), y |-> reservoirIndex.y]
         IN [pixelPosition EXCEPT !.x = UintAdd(@, ToUint(UintAnd1(pixelPosition.y)))]

\* uint2 RTXDI_ReservoirPosToPixelPos(uint2 reservoirIndex, uint activeCheckerboardField)
RTXDI_ReservoirPosToPixelPos(reservoirIndex, activeCheckerboardField) ==
    IF activeCheckerboardField = 0
    THEN reservoirIndex
    ELSE LET pixelPosition == [x |-> UintShl1(reservoirIndex.x), y |-> reservoirIndex.y]
         IN [pixelPosition EXCEPT
                !.x = UintAdd(@, ToUint(UintAnd1(UintAdd(pixelPosition.y,
                                                         ToUint(activeCheckerboardField)))))]

\* The reservoir buffer pitches the host precomputes for a reservoir grid of
\* width x height cells (CalculateReservoirBufferParameters): whole blocks per row,
\* whole block rows per slice.
CalculateReservoirBufferParameters(width, height) ==
    LET blocksX == (width + RTXDI_RESERVOIR_BLOCK_SIZE - 1) \div RTXDI_RESERVOIR_BLOCK_SIZE
        blocksY == (height + RTXDI_RESERVOIR_BLOCK_SIZE - 1) \div RTXDI_RESERVOIR_BLOCK_SIZE
        rowPitch == blocksX * (RTXDI_RESERVOIR_BLOCK_SIZE * RTXDI_RESERVOIR_BLOCK_SIZE)
    IN [ reservoirBlockRowPitch |-> rowPitch,
         reservoirArrayPitch    |-> rowPitch * blocksY ]

\* Defective variant: a block advances the pointer by one block row (16) instead of one block (256)
RTXDI_ReservoirPositionToPointer_ShortBlock(reservoirParams, reservoirPosition, reservoirArrayIndex) ==
    LET blockIdx == [x |-> reservoirPosition.x \div RTXDI_RESERVOIR_BLOCK_SIZE,
                     y |-> reservoirPosition.y \div RTXDI_RESERVOIR_BLOCK_SIZE]
        positionInBlock == [x |-> reservoirPosition.x % RTXDI_RESERVOIR_BLOCK_SIZE,
                            y |-> reservoirPosition.y % RTXDI_RESERVOIR_BLOCK_SIZE]
    IN reservoirArrayIndex * reservoirParams.reservoirArrayPitch
        + blockIdx.y * reservoirParams.reservoirBlockRowPitch
        + blockIdx.x * RTXDI_RESERVOIR_BLOCK_SIZE
        + positionInBlock.y * RTXDI_RESERVOIR_BLOCK_SIZE
        + positionInBlock.x

\* uint RTXDI_ReservoirPositionToPointer(RTXDI_ReservoirBufferParameters reservoirParams,
\*                                       uint2 reservoirPosition, uint reservoirArrayIndex)
\* Coordinates and pitches are plain naturals here: within the model's extents every
\* term stays far below 2^32, so the uint arithmetic never wraps.
RTXDI_ReservoirPositionToPointer(reservoirParams, reservoirPosition, reservoirArrayIndex) ==
    LET blockIdx == [x |-> reservoirPosition.x \div RTXDI_RESERVOIR_BLOCK_SIZE,
                     y |-> reservoirPosition.y \div RTXDI_RESERVOIR_BLOCK_SIZE]
        positionInBlock == [x |-> reservoirPosition.x % RTXDI_RESERVOIR_BLOCK_SIZE,
                            y |-> reservoirPosition.y % RTXDI_RESERVOIR_BLOCK_SIZE]
    IN reservoirArrayIndex * reservoirParams.reservoirArrayPitch
        + blockIdx.y * reservoirParams.reservoirBlockRowPitch
        + blockIdx.x * (RTXDI_RESERVOIR_BLOCK_SIZE * RTXDI_RESERVOIR_BLOCK_SIZE)
        + positionInBlock.y * RTXDI_RESERVOIR_BLOCK_SIZE
        + positionInBlock.x

\* Defective variant: the offset is added back instead of subtracted
RTXDI_ApplyPermutationSampling_NoUndo(prevPixelPos, uniformRandomNumber) ==
    LET offset == [x |-> uniformRandomNumber % 4, y |-> (uniformRandomNumber \div 4) % 4]
    IN [x |-> Xor3(prevPixelPos.x + offset.x) + offset.x,
        y |-> Xor3(prevPixelPos.y + offset.y) + offset.y]

\* Defective variant: only the x coordinate is permuted
RTXDI_ApplyPermutationSampling_OnlyX(prevPixelPos, uniformRandomNumber) ==
    LET offset == [x |-> uniformRandomNumber % 4, y |-> (uniformRandomNumber \div 4) % 4]
    IN [x |-> Xor3(prevPixelPos.x + offset.x) - offset.x,
        y |-> prevPixelPos.y]

\* void RTXDI_ApplyPermutationSampling(inout int2 prevPixelPos, uint uniformRandomNumber)
\* offset = (rand & 3, (rand >> 2) & 3); the result is the new value of prevPixelPos.
RTXDI_ApplyPermutationSampling(prevPixelPos, uniformRandomNumber) ==
    LET offset == [x |-> uniformRandomNumber % 4, y |-> (uniformRandomNumber \div 4) % 4]
    IN [x |-> Xor3(prevPixelPos.x + offset.x) - offset.x,
        y |-> Xor3(prevPixelPos.y + offset.y) - offset.y]

----------------------------------------------------------------------------
(* Shader harness: one invocation of the addressing helpers per behaviour *)

\* Pixel coordinates are drawn from MinCoord..MaxCoord (negative ones are what an
\* int2 position left of / above the view looks like)
NegCoord == 2
MinCoord == -NegCoord
MaxCoord == 4

\* uniformRandomNumber is drawn from 0..MaxRand (only its four low bits are read)
MaxRand == 16

\* Reservoir grid extents are drawn up to MaxWidth x MaxHeight; slices 0..MaxSlice
MaxWidth == 33
MaxHeight == 17
MaxSlice == 1

Coords == MinCoord .. MaxCoord
Pixels == [x : Coords, y : Coords]
Fields == {0, 1, 2}
Widths == {1, RTXDI_RESERVOIR_BLOCK_SIZE, RTXDI_RESERVOIR_BLOCK_SIZE + 1, MaxWidth}
Heights == {1, RTXDI_RESERVOIR_BLOCK_SIZE, MaxHeight}

Calls ==
    [fn : {"RoundTrip"}, pixelPosition : Pixels, activeCheckerboardField : Fields]
    \cup
    [fn : {"ReservoirPositionToPointer"}, width : Widths, height : Heights,
     reservoirPosition : [x : 0 .. (MaxWidth - 1), y : 0 .. (MaxHeight - 1)],
     reservoirArrayIndex : 0 .. MaxSlice]
    \cup
    [fn : {"ActivateCheckerboardPixel"}, pixelPosition : Pixels, previousFrame : BOOLEAN,
     activeCheckerboardField : Fields]
    \cup
    [fn : {"ApplyPermutationSampling"}, prevPixelPos : Pixels, uniformRandomNumber : 0 .. MaxRand]

ShaderInit ==
    /\ driven = "none"
    /\ di = ReSTIRDIContext_ctor([ CheckerboardSamplingMode |-> "Off",
                                    NeighborOffsetCount |-> NeighborOffsetCount ])
    /\ gi = ReSTIRGIContext_ctor([ CheckerboardSamplingMode |-> "Off" ])
    /\ lastCall = "ctor"
    /\ before = di
    /\ frames = << >>
    /\ call \in Calls
    /\ call.fn = "ReservoirPositionToPointer" =>
          /\ call.reservoirPosition.x < call.width
          /\ call.reservoirPosition.y < call.height
    /\ ret = << >>

\* Round trip, first half: the pixel (an int2 passed as uint2) to its reservoir cell
PixelPosToReservoirPos ==
    /\ call.fn = "RoundTrip"
    /\ Len(ret) = 0
    /\ ret' = << RTXDI_PixelPosToReservoirPos(ToUint2(call.pixelPosition),
                                              call.activeCheckerboardField) >>
    /\ UNCHANGED <<ctxVars, call>>

\* Round trip, second half: the reservoir cell back to a pixel
ReservoirPosToPixelPos ==
    /\ call.fn = "RoundTrip"
    /\ Len(ret) = 1
    /\ ret' = Append(ret, RTXDI_ReservoirPosToPixelPos(ret[1], call.activeCheckerboardField))
    /\ UNCHANGED <<ctxVars, call>>

ReservoirPositionToPointer ==
    /\ call.fn = "ReservoirPositionToPointer"
    /\ Len(ret) = 0
    /\ ret' = << RTXDI_ReservoirPositionToPointer(
                    CalculateReservoirBufferParameters(call.width, call.height),
                    call.reservoirPosition, call.reservoirArrayIndex) >>
    /\ UNCHANGED <<ctxVars, call>>

ActivateCheckerboardPixel ==
    /\ call.fn = "ActivateCheckerboardPixel"
    /\ Len(ret) = 0
    /\ ret' = << RTXDI_ActivateCheckerboardPixel_int2(call.pixelPosition, call.previousFrame,
                                                      call.activeCheckerboardField) >>
    /\ UNCHANGED <<ctxVars, call>>

\* Applied once to the argument, then once more to the result
ApplyPermutationSampling ==
    /\ call.fn = "ApplyPermutationSampling"
    /\ Len(ret) < 2
    /\ ret' = Append(ret, RTXDI_ApplyPermutationSampling(
                             IF Len(ret) = 0 THEN call.prevPixelPos ELSE ret[1],
                             call.uniformRandomNumber))
    /\ UNCHANGED <<ctxVars, call>>

ShaderNext ==
    \/ PixelPosToReservoirPos
    \/ ReservoirPosToPixelPos
    \/ ReservoirPositionToPointer
    \/ ActivateCheckerboardPixel
    \/ ApplyPermutationSampling

SpecShader == ShaderInit /\ [][ShaderNext]_vars

----------------------------------------------------------------------------
(* Claims about the contexts *)

DIModeUsesTemporal(mode) == mode \in {"Temporal", "TemporalAndSpatial", "FusedSpatiotemporal"}
DIModeUsesSpatial(mode)  == mode \in {"Spatial", "TemporalAndSpatial", "FusedSpatiotemporal"}

\* The DI index mapping as the specification writes it, for `last` and `mode`
DIIndicesAsSpecified(b, last, mode) ==
    IF mode = "FusedSpatiotemporal"
    THEN /\ b.initialSamplingOutputBufferIndex = (last + 1) % 3
         /\ b.temporalResamplingInputBufferIndex = last
         /\ b.shadingInputBufferIndex = b.initialSamplingOutputBufferIndex
    ELSE /\ b.initialSamplingOutputBufferIndex = (last + 1) % 3
         /\ b.temporalResamplingInputBufferIndex = last
         /\ b.temporalResamplingOutputBufferIndex = (b.temporalResamplingInputBufferIndex + 1) % 3
         /\ b.spatialResamplingInputBufferIndex =
               (IF DIModeUsesTemporal(mode) THEN b.temporalResamplingOutputBufferIndex
                                           ELSE b.initialSamplingOutputBufferIndex)
         /\ b.spatialResamplingOutputBufferIndex = (b.spatialResamplingInputBufferIndex + 1) % 3
         /\ b.shadingInputBufferIndex =
               (IF DIModeUsesSpatial(mode) THEN b.spatialResamplingOutputBufferIndex
                                          ELSE b.temporalResamplingOutputBufferIndex)

\* C1: after construction and after every SetFrameIndex / SetResamplingMode call on a
\* ReSTIRDIContext, the buffer indices are the specified function of
\* last = m_lastFrameOutputReservoir and the mode; last is 0 at construction, is set by
\* SetFrameIndex to the shadingInputBufferIndex in effect just before the call, and is
\* left unchanged by SetResamplingMode.
C1_DIBufferIndexMapping ==
    driven = "DI" =>
        /\ DIIndicesAsSpecified(di.m_bufferIndices, di.m_lastFrameOutputReservoir, di.m_resamplingMode)
        /\ lastCall = "ctor" => di.m_lastFrameOutputReservoir = 0
        /\ lastCall = "SetFrameIndex" =>
              di.m_lastFrameOutputReservoir = before.m_bufferIndices.shadingInputBufferIndex
        /\ lastCall = "SetResamplingMode" =>
              di.m_lastFrameOutputReservoir = before.m_lastFrameOutputReservoir

\* C1 witness: a frame was set in Temporal mode (no spatial pass: shading reads the
\* temporal output) with a non-zero last slice
C1_Witness ==
    /\ driven = "DI"
    /\ lastCall = "SetFrameIndex"
    /\ di.m_resamplingMode = "Temporal"
    /\ di.m_lastFrameOutputReservoir = 2
    /\ di.m_bufferIndices.shadingInputBufferIndex = 0

\* The GI index mapping as the specification writes it, for the mode's own indices
GIIndicesAsSpecified(b, frameIndex, mode) ==
    LET dst == frameIndex % 2
    IN /\ mode = "Temporal" =>
            /\ b.temporalResamplingInputBufferIndex = 1 - dst
            /\ b.temporalResamplingOutputBufferIndex = dst
            /\ b.finalShadingInputBufferIndex = dst
       /\ mode = "Spatial" =>
            /\ b.spatialResamplingInputBufferIndex = 0
            /\ b.spatialResamplingOutputBufferIndex = 1
            /\ b.finalShadingInputBufferIndex = 1
       /\ mode = "TemporalAndSpatial" =>
            /\ b.temporalResamplingInputBufferIndex = 1
            /\ b.temporalResamplingOutputBufferIndex = 0
            /\ b.spatialResamplingInputBufferIndex = 0
            /\ b.spatialResamplingOutputBufferIndex = 1
            /\ b.finalShadingInputBufferIndex = 1
       /\ mode = "FusedSpatiotemporal" =>
            /\ b.temporalResamplingInputBufferIndex = 1 - dst
            /\ b.spatialResamplingOutputBufferIndex = dst
            /\ b.finalShadingInputBufferIndex = dst

\* C2: after any sequence of SetFrameIndex / SetResamplingMode calls on a
\* ReSTIRGIContext, the indices the current mode uses are the specified ones, and every
\* index (used or not) is 0 or 1, i.e. below the 2 GI reservoir slices.
C2_GIBufferIndexMapping ==
    driven = "GI" =>
        /\ GIIndicesAsSpecified(gi.m_bufferIndices, gi.m_frameIndex, gi.m_resamplingMode)
        /\ \A f \in DOMAIN gi.m_bufferIndices :
              gi.m_bufferIndices[f] \in 0 .. (c_NumReSTIRGIReservoirBuffers - 1)

\* C2 witness: an odd frame set in Temporal mode (reads slice 0, writes slice 1)
C2_Witness ==
    /\ driven = "GI"
    /\ lastCall = "SetFrameIndex"
    /\ gi.m_resamplingMode = "Temporal"
    /\ gi.m_frameIndex % 2 = 1
    /\ gi.m_bufferIndices.temporalResamplingInputBufferIndex = 0

\* C3: in every reachable state of either context, each resampling pass the current
\* mode runs reads a slice different from the one it writes.
C3_SourceDiffersFromDestination ==
    /\ driven = "DI" =>
        LET b == di.m_bufferIndices
            mode == di.m_resamplingMode
        IN /\ mode \in {"Temporal", "TemporalAndSpatial"} =>
                b.temporalResamplingInputBufferIndex # b.temporalResamplingOutputBufferIndex
           /\ mode \in {"Spatial", "TemporalAndSpatial"} =>
                b.spatialResamplingInputBufferIndex # b.spatialResamplingOutputBufferIndex
           /\ mode = "FusedSpatiotemporal" =>
                b.temporalResamplingInputBufferIndex # b.shadingInputBufferIndex
    /\ driven = "GI" =>
        LET b == gi.m_bufferIndices
            mode == gi.m_resamplingMode
        IN /\ mode \in {"Temporal", "TemporalAndSpatial"} =>
                b.temporalResamplingInputBufferIndex # b.temporalResamplingOutputBufferIndex
           /\ mode \in {"Spatial", "TemporalAndSpatial"} =>
                b.spatialResamplingInputBufferIndex # b.spatialResamplingOutputBufferIndex
           /\ mode = "FusedSpatiotemporal" =>
                b.temporalResamplingInputBufferIndex # b.spatialResamplingOutputBufferIndex

\* C3 witness: a DI context running the temporal and the spatial pass, reached through
\* fused mode, several frames in
C3_Witness ==
    /\ driven = "DI"
    /\ di.m_resamplingMode = "TemporalAndSpatial"
    /\ lastCall = "SetFrameIndex"
    /\ Len(frames) >= 2
    /\ di.m_lastFrameOutputReservoir = 1

\* C4: for a ReSTIRDIContext in Temporal, TemporalAndSpatial or FusedSpatiotemporal
\* mode, shadingInputBufferIndex after each SetFrameIndex call (any argument, repeated
\* ones included) differs from its value just before the call.
C4_DIShadingIndexChangesEachFrame ==
    ( /\ driven = "DI"
      /\ lastCall = "SetFrameIndex"
      /\ DIModeUsesTemporal(di.m_resamplingMode) ) =>
        di.m_bufferIndices.shadingInputBufferIndex # before.m_bufferIndices.shadingInputBufferIndex

\* C4 witness: two back-to-back SetFrameIndex calls with the same argument, in fused mode
C4_Witness ==
    /\ driven = "DI"
    /\ lastCall = "SetFrameIndex"
    /\ di.m_resamplingMode = "FusedSpatiotemporal"
    /\ Len(frames) >= 2
    /\ frames[Len(frames)].m_frameIndex = frames[Len(frames) - 1].m_frameIndex

\* C5 as stated: for a ReSTIRGIContext held in Temporal, TemporalAndSpatial or
\* FusedSpatiotemporal mode, the final shading input index after each SetFrameIndex call
\* differs from the previous frame's value.
C5_Original_GIShadingIndexChangesEachFrame ==
    ( /\ driven = "GI"
      /\ lastCall = "SetFrameIndex"
      /\ Len(frames) >= 2
      /\ gi.m_resamplingMode \in {"Temporal", "TemporalAndSpatial", "FusedSpatiotemporal"} ) =>
        gi.m_bufferIndices.finalShadingInputBufferIndex
            # before.m_bufferIndices.finalShadingInputBufferIndex

\* C5 amended: for a ReSTIRGIContext in Temporal or FusedSpatiotemporal mode, the final
\* shading input index after a SetFrameIndex call differs from its value just before the
\* call exactly when the new frame index differs in parity from the previous one (so it
\* alternates for consecutive frame indices); in TemporalAndSpatial mode it is 1 before
\* and after every call.
C5_GIShadingIndexFollowsFrameParity ==
    ( /\ driven = "GI"
      /\ lastCall = "SetFrameIndex" ) =>
        /\ gi.m_resamplingMode \in {"Temporal", "FusedSpatiotemporal"} =>
              ( gi.m_bufferIndices.finalShadingInputBufferIndex
                    # before.m_bufferIndices.finalShadingInputBufferIndex
                <=> (gi.m_frameIndex % 2) # (before.m_frameIndex % 2) )
        /\ gi.m_resamplingMode = "TemporalAndSpatial" =>
              /\ gi.m_bufferIndices.finalShadingInputBufferIndex = 1
              /\ before.m_bufferIndices.finalShadingInputBufferIndex = 1

\* C5 witness: a GI context in Temporal mode stepped from an even to an odd frame
C5_Witness ==
    /\ driven = "GI"
    /\ lastCall = "SetFrameIndex"
    /\ gi.m_resamplingMode = "Temporal"
    /\ Len(frames) >= 2
    /\ before.m_frameIndex = 2
    /\ gi.m_frameIndex = 3
    /\ gi.m_bufferIndices.finalShadingInputBufferIndex = 1
    /\ before.m_bufferIndices.finalShadingInputBufferIndex = 0

\* The n-th (1..3) of the three newest back-to-back frames
Recent(n) == frames[Len(frames) - 3 + n]

\* Scenario S6: the driven DI context is in fused mode and the three latest calls were
\* SetFrameIndex(0), SetFrameIndex(1), SetFrameIndex(2), back to back
S6_Frames012 ==
    /\ driven = "DI"
    /\ di.m_resamplingMode = "FusedSpatiotemporal"
    /\ Len(frames) >= 3
    /\ \A i \in 1 .. 3 : Recent(i).m_frameIndex = i - 1

\* C6 as stated: in scenario S6 the shadingInputBufferIndex strictly alternates between
\* two slices (the frame-2 value equals the frame-0 value, the frame-1 value differs), and
\* each frame reads (temporal input) the slice written in the previous frame.
C6_Original_FusedAlternatesTwoSlices ==
    S6_Frames012 =>
        /\ Recent(3).m_bufferIndices.shadingInputBufferIndex
              = Recent(1).m_bufferIndices.shadingInputBufferIndex
        /\ Recent(2).m_bufferIndices.shadingInputBufferIndex
              # Recent(1).m_bufferIndices.shadingInputBufferIndex
        /\ \A i \in 2 .. 3 : Recent(i).m_bufferIndices.temporalResamplingInputBufferIndex
                                = Recent(i - 1).m_bufferIndices.shadingInputBufferIndex

\* C6 amended: in scenario S6 the shadingInputBufferIndex advances by one modulo 3 every
\* frame, so frames 0, 1, 2 use three different slices (the frame-2 value differs from the
\* frame-0 value), and each frame reads (temporal input) the slice written in the
\* previous frame.
C6_FusedRotatesThreeSlices ==
    S6_Frames012 =>
        /\ \A i \in 2 .. 3 : Recent(i).m_bufferIndices.shadingInputBufferIndex
                = (Recent(i - 1).m_bufferIndices.shadingInputBufferIndex + 1) % 3
        /\ Cardinality({Recent(i).m_bufferIndices.shadingInputBufferIndex : i \in 1 .. 3}) = 3
        /\ \A i \in 2 .. 3 : Recent(i).m_bufferIndices.temporalResamplingInputBufferIndex
                                = Recent(i - 1).m_bufferIndices.shadingInputBufferIndex
        /\ di.m_bufferIndices.temporalResamplingInputBufferIndex
              = before.m_bufferIndices.shadingInputBufferIndex

\* C6 witness: scenario S6 starting right after construction and a switch to fused mode,
\* giving the sequence 2, 0, 1
C6_Witness ==
    /\ S6_Frames012
    /\ Recent(1).m_bufferIndices.shadingInputBufferIndex = 2
    /\ Recent(2).m_bufferIndices.shadingInputBufferIndex = 0
    /\ Recent(3).m_bufferIndices.shadingInputBufferIndex = 1

----------------------------------------------------------------------------
(* Claims about the addressing helpers *)

\* C7: for every field in {0,1,2} and every pixel p that RTXDI_IsActiveCheckerboardPixel
\* reports active for that field (current frame), mapping p to its reservoir position
\* and back returns p; with field 0 both functions are the identity.
C7_AddressRoundTrip ==
    call.fn = "RoundTrip" =>
        LET p == ToUint2(call.pixelPosition)
            field == call.activeCheckerboardField
        IN /\ (Len(ret) = 2 /\ RTXDI_IsActiveCheckerboardPixel(p, FALSE, field)) => ret[2] = p
           /\ (Len(ret) >= 1 /\ field = 0) => ret[1] = p
           /\ (Len(ret) = 2 /\ field = 0) => ret[2] = ret[1]

\* C7 witness: an active pixel in an odd column of field 1, whose reservoir column is
\* half its pixel column, taken there and back
C7_Witness ==
    /\ call.fn = "RoundTrip"
    /\ Len(ret) = 2
    /\ call.activeCheckerboardField = 1
    /\ call.pixelPosition = [x |-> 3, y |-> 2]
    /\ RTXDI_IsActiveCheckerboardPixel(ToUint2(call.pixelPosition), FALSE, 1)
    /\ ToInt2(ret[1]) = [x |-> 1, y |-> 2]
    /\ ToInt2(ret[2]) = [x |-> 3, y |-> 2]

\* The offset formula of the specification, for pitches of a W x H grid
OffsetAsSpecified(W, H, x, y, slice) ==
    LET blockRowPitch == 16 * 16 * ((W + 15) \div 16)
        arrayPitch == blockRowPitch * ((H + 15) \div 16)
    IN slice * arrayPitch + (y \div 16) * blockRowPitch + (x \div 16) * 256
         + (y % 16) * 16 + (x % 16)

\* C8: with reservoirBlockRowPitch = 16*16*ceil(W/16) and reservoirArrayPitch =
\* reservoirBlockRowPitch*ceil(H/16), RTXDI_ReservoirPositionToPointer returns
\* s*arrayPitch + (y/16)*blockRowPitch + (x/16)*256 + (y%16)*16 + (x%16), and no other
\* coordinate of [0,W)x[0,H) in the same slice maps to the same offset.
C8_PointerInjectiveWithinSlice ==
    (call.fn = "ReservoirPositionToPointer" /\ Len(ret) = 1) =>
        LET params == CalculateReservoirBufferParameters(call.width, call.height)
        IN /\ ret[1] = OffsetAsSpecified(call.width, call.height, call.reservoirPosition.x,
                                         call.reservoirPosition.y, call.reservoirArrayIndex)
           /\ \A x \in 0 .. (call.width - 1), y \in 0 .. (call.height - 1) :
                 [x |-> x, y |-> y] # call.reservoirPosition =>
                    RTXDI_ReservoirPositionToPointer(params, [x |-> x, y |-> y],
                                                     call.reservoirArrayIndex) # ret[1]

\* C8 witness: a cell in the second block column and second block row of slice 1 of a
\* grid that is not a whole number of blocks wide
C8_Witness ==
    /\ call.fn = "ReservoirPositionToPointer"
    /\ Len(ret) = 1
    /\ call.width = 17
    /\ call.height = 17
    /\ call.reservoirPosition = [x |-> 16, y |-> 16]
    /\ call.reservoirArrayIndex = 1
    /\ ret[1] = 1024 + 512 + 256

\* |a - b|
AbsDiff(a, b) == IF a >= b THEN a - b ELSE b - a

\* C9: for every pixel p, previousFrame flag and field in {0,1,2}, the pixel left by
\* RTXDI_ActivateCheckerboardPixel(p, previousFrame, field) is active for
\* (previousFrame, field); only x is changed, by at most 2 in absolute value; and a pixel
\* that was already active is left unchanged.
C9_ActivationMakesActive ==
    (call.fn = "ActivateCheckerboardPixel" /\ Len(ret) = 1) =>
        LET p == call.pixelPosition
            q == ret[1]
        IN /\ RTXDI_IsActiveCheckerboardPixel(ToUint2(q), call.previousFrame,
                                              call.activeCheckerboardField)
           /\ q.y = p.y
           /\ AbsDiff(q.x, p.x) <= 2
           /\ RTXDI_IsActiveCheckerboardPixel(ToUint2(p), call.previousFrame,
                                              call.activeCheckerboardField) => q = p

\* C9 witness: the inactive previous-frame pixel (0,1) of field 1 is moved one column
\* to the left, through the uint wrap-around, to (-1,1)
C9_Witness ==
    /\ call.fn = "ActivateCheckerboardPixel"
    /\ Len(ret) = 1
    /\ call.pixelPosition = [x |-> 0, y |-> 1]
    /\ call.previousFrame
    /\ call.activeCheckerboardField = 1
    /\ ~RTXDI_IsActiveCheckerboardPixel(ToUint2(call.pixelPosition), TRUE, 1)
    /\ ret[1] = [x |-> -1, y |-> 1]

\* C10: for every integer pixel position p (negative coordinates included) and every
\* uniformRandomNumber, applying RTXDI_ApplyPermutationSampling twice with the same
\* random number returns p.
C10_PermutationIsInvolution ==
    (call.fn = "ApplyPermutationSampling" /\ Len(ret) = 2) => ret[2] = call.prevPixelPos

\* C10 witness: a pixel with a negative coordinate, moved by the first application and
\* brought back by the second
C10_Witness ==
    /\ call.fn = "ApplyPermutationSampling"
    /\ Len(ret) = 2
    /\ call.prevPixelPos = [x |-> -2, y |-> 3]
    /\ call.uniformRandomNumber = 6
    /\ ret[1] = [x |-> 1, y |-> 6]
    /\ ret[2] = call.prevPixelPos

----------------------------------------------------------------------------
(* float values of the shader code *)

\* A float is held as an exact non-negative fraction [n, d] in lowest terms. Sums and
\* products that are whole numbers are rounded to the 24-bit significand of a 32-bit
\* float (round to nearest, ties to even); the fractions the model uses below 2^24 are
\* kept exact.
FloatSignificandBits == 24

RECURSIVE GCD(_, _)
GCD(a, b) == IF b = 0 THEN a ELSE GCD(b, a % b)

\* Spacing of the floats around the whole number n
RECURSIVE FloatUlp(_)
FloatUlp(n) == IF n < 2^FloatSignificandBits THEN 1 ELSE 2 * FloatUlp(n \div 2)

\* n rounded to a multiple of ulp, to nearest, ties to the even multiple
RoundToUlp(n, ulp) ==
    IF (2 * (n % ulp) > ulp) \/ (2 * (n % ulp) = ulp /\ (n \div ulp) % 2 = 1)
    THEN ((n \div ulp) + 1) * ulp
    ELSE (n \div ulp) * ulp

\* The float nearest to the whole number n
RoundToFloat(n) == RoundToUlp(n, FloatUlp(n))

\* The result of 0.0 / 0.0 and of any operation on it (a denominator of 0 marks a
\* non-finite value)
FloatNaN == [n |-> 0, d |-> 0]

\* n / d given g = gcd(n, d)
FloatReduced(n, d, g) ==
    IF d = g THEN [n |-> RoundToFloat(n \div g), d |-> 1]
             ELSE [n |-> n \div g, d |-> d \div g]

Float(n, d) == IF d = 0 THEN FloatNaN ELSE FloatReduced(n, d, GCD(n, d))

FloatZero == Float(0, 1)
FloatOne == Float(1, 1)
FloatOfUint(m) == Float(m, 1)
FloatAdd(a, b) == Float(a.n * b.d + b.n * a.d, a.d * b.d)
FloatMul(a, b) == Float(a.n * b.n, a.d * b.d)
\* a / b; x / 0 is non-finite
FloatDiv(a, b) == Float(a.n * b.d, a.d * b.n)
\* Comparisons with a non-finite value are false
FloatLe(a, b) == a.d /= 0 /\ b.d /= 0 /\ a.n * b.d <= b.n * a.d
FloatGt(a, b) == a.d /= 0 /\ b.d /= 0 /\ a.n * b.d > b.n * a.d

Min(a, b) == IF a <= b THEN a ELSE b

----------------------------------------------------------------------------
(* GI/Reservoir.hlsli *)

RTXDI_PackedGIReservoir_MaxM == 255
RTXDI_PackedGIReservoir_AgeShift == 8
RTXDI_PackedGIReservoir_MaxAge == 255

\* The normal and radiance encoders are lossy: a vector value v (a whole number standing
\* for a float3) is stored at half resolution, so odd values come back as the next even
\* value.
RTXDI_EncodeNormalizedVectorToSnorm2x16(v) == (v + 1) \div 2
RTXDI_DecodeNormalizedVectorFromSnorm2x16(p) == 2 * p
RTXDI_EncodeRGBToLogLuv(v) == (v + 1) \div 2
RTXDI_DecodeLogLuvToRGB(p) == 2 * p

\* miscData & RTXDI_PackedGIReservoir_MiscDataMask (0xffff0000)
MiscDataMasked(u) == [hi |-> u.hi, lo |-> 0]

\* Defective variant: M is stored unclamped and spills into the age bits
RTXDI_PackGIReservoir_NoClamp(reservoir, miscData) ==
    [ position |-> reservoir.position,
      packed_normal |-> RTXDI_EncodeNormalizedVectorToSnorm2x16(reservoir.normal),
      packed_miscData_age_M |->
          [ hi |-> miscData.hi,
            lo |-> (Min(reservoir.age, RTXDI_PackedGIReservoir_MaxAge)
                        * 2^RTXDI_PackedGIReservoir_AgeShift + reservoir.M) % Limb ],
      weight |-> reservoir.weightSum,
      packed_radiance |-> RTXDI_EncodeRGBToLogLuv(reservoir.radiance),
      unused |-> 0 ]

\* The three fields of packed_miscData_age_M occupy disjoint bits (M bits 0..7, age bits
\* 8..15, miscData bits 16..31), so their bitwise OR is their sum.
RTXDI_PackGIReservoir(reservoir, miscData) ==
    [ position |-> reservoir.position,
      packed_normal |-> RTXDI_EncodeNormalizedVectorToSnorm2x16(reservoir.normal),
      packed_miscData_age_M |->
          [ hi |-> MiscDataMasked(miscData).hi,
            lo |-> Min(reservoir.age, RTXDI_PackedGIReservoir_MaxAge)
                        * 2^RTXDI_PackedGIReservoir_AgeShift
                   + Min(reservoir.M, RTXDI_PackedGIReservoir_MaxM) ],
      weight |-> reservoir.weightSum,
      packed_radiance |-> RTXDI_EncodeRGBToLogLuv(reservoir.radiance),
      unused |-> 0 ]

\* Returns the reservoir and the miscData out-parameter
RTXDI_UnpackGIReservoir(data) ==
    [ res |-> [ position |-> data.position,
                normal |-> RTXDI_DecodeNormalizedVectorFromSnorm2x16(data.packed_normal),
                radiance |-> RTXDI_DecodeLogLuvToRGB(data.packed_radiance),
                weightSum |-> data.weight,
                M |-> data.packed_miscData_age_M.lo % (RTXDI_PackedGIReservoir_MaxM + 1),
                age |-> (data.packed_miscData_age_M.lo \div 2^RTXDI_PackedGIReservoir_AgeShift)
                            % (RTXDI_PackedGIReservoir_MaxAge + 1) ],
      miscData |-> MiscDataMasked(data.packed_miscData_age_M) ]

RTXDI_EmptyGIReservoir ==
    [ position |-> 0, normal |-> 0, radiance |-> 0, weightSum |-> FloatZero, M |-> 0, age |-> 0 ]

RTXDI_MakeGIReservoir(samplePos, sampleNormal, sampleRadiance, samplePdf) ==
    [ position |-> samplePos, normal |-> sampleNormal, radiance |-> sampleRadiance,
      weightSum |-> IF FloatGt(samplePdf, FloatZero) THEN FloatDiv(FloatOne, samplePdf)
                                                     ELSE FloatZero,
      M |-> 1, age |-> 0 ]

RTXDI_IsValidGIReservoir(reservoir) == reservoir.M /= 0

\* Defective variant: M and weightSum are accumulated only when the sample is selected
RTXDI_CombineGIReservoirs_SumOnSelect(reservoir, newReservoir, random, targetPdf) ==
    LET risWeight == FloatMul(FloatMul(targetPdf, newReservoir.weightSum),
                              FloatOfUint(newReservoir.M))
        weightSum == FloatAdd(reservoir.weightSum, risWeight)
        selectSample == FloatLe(FloatMul(random, weightSum), risWeight)
    IN [ reservoir |->
             IF selectSample
             THEN [ reservoir EXCEPT !.M = reservoir.M + newReservoir.M,
                                     !.weightSum = weightSum,
                                     !.position = newReservoir.position,
                                     !.normal = newReservoir.normal,
                                     !.radiance = newReservoir.radiance,
                                     !.age = newReservoir.age ]
             ELSE reservoir,
         selectSample |-> selectSample ]

\* Returns the updated reservoir (the inout parameter) and the bool result
RTXDI_CombineGIReservoirs(reservoir, newReservoir, random, targetPdf) ==
    LET risWeight == FloatMul(FloatMul(targetPdf, newReservoir.weightSum),
                              FloatOfUint(newReservoir.M))
        M == reservoir.M + newReservoir.M
        weightSum == FloatAdd(reservoir.weightSum, risWeight)
        selectSample == FloatLe(FloatMul(random, weightSum), risWeight)
        summed == [ reservoir EXCEPT !.M = M, !.weightSum = weightSum ]
    IN [ reservoir |->
             IF selectSample
             THEN [ summed EXCEPT !.position = newReservoir.position,
                                  !.normal = newReservoir.normal,
                                  !.radiance = newReservoir.radiance,
                                  !.age = newReservoir.age ]
             ELSE summed,
         selectSample |-> selectSample ]

\* Defective variant: the zero denominator is not tested (the result of 0/0 is a NaN)
RTXDI_FinalizeGIResampling_NoZeroTest(reservoir, normalizationNumerator, normalizationDenominator) ==
    [ reservoir EXCEPT !.weightSum =
          IF normalizationDenominator = FloatZero
          THEN FloatNaN
          ELSE FloatDiv(FloatMul(reservoir.weightSum, normalizationNumerator),
                        normalizationDenominator) ]

RTXDI_FinalizeGIResampling(reservoir, normalizationNumerator, normalizationDenominator) ==
    [ reservoir EXCEPT !.weightSum =
          IF normalizationDenominator = FloatZero
          THEN FloatZero
          ELSE FloatDiv(FloatMul(reservoir.weightSum, normalizationNumerator),
                        normalizationDenominator) ]

----------------------------------------------------------------------------
(* Invocations of the GI reservoir functions *)

\* Positions, normals and radiances are drawn from 0..MaxVector (each value stands for
\* one float3)
MaxVector == 1
Vectors == 0..MaxVector

\* The largest M of the wire contract as the specification states it
WireMaxM == 8191

ReservoirMs == {0, 1, 2, RTXDI_PackedGIReservoir_MaxM, RTXDI_PackedGIReservoir_MaxM + 1, WireMaxM}
ReservoirAges == {0, 1, RTXDI_PackedGIReservoir_MaxAge, RTXDI_PackedGIReservoir_MaxAge + 1}
ReservoirWeights == {FloatZero, Float(1, 2), FloatOne, Float(2^FloatSignificandBits, 1)}
MiscDatas == {ToUint(0), [hi |-> 1, lo |-> 1], ToUint(-1)}

GIReservoirs ==
    [ position : Vectors, normal : {0}, radiance : Vectors, weightSum : ReservoirWeights,
      M : ReservoirMs, age : ReservoirAges ]

GIPackCalls == [ fn : {"PackGIReservoir"}, reservoir : GIReservoirs, miscData : MiscDatas ]

\* RTXDI_StoreGIReservoir with miscFlags: the reservoir is packed into the buffer
PackGIReservoir ==
    /\ call.fn = "PackGIReservoir"
    /\ Len(ret) = 0
    /\ ret' = << RTXDI_PackGIReservoir(call.reservoir, call.miscData) >>
    /\ UNCHANGED <<ctxVars, call>>

\* RTXDI_LoadGIReservoir with miscFlags: the packed reservoir is read back
UnpackGIReservoir ==
    /\ call.fn = "PackGIReservoir"
    /\ Len(ret) = 1
    /\ ret' = Append(ret, RTXDI_UnpackGIReservoir(ret[1]))
    /\ UNCHANGED <<ctxVars, call>>

\* Number of candidates streamed into one reservoir
NumCandidates == 3

\* The candidates a stream is made of: a reservoir and the target PDF it is streamed with
CandidateWeights == << FloatOne, Float(2^FloatSignificandBits, 1) >>
CandidateMs == << 1, 2 >>
CandidatePdfs == << FloatOne, Float(2, 1) >>
NumCandidateKinds == Len(CandidateWeights) * Len(CandidateMs) * Len(CandidatePdfs)

Candidate(k) ==
    [ reservoir |-> [ RTXDI_EmptyGIReservoir EXCEPT
                        !.position = 1,
                        !.weightSum = CandidateWeights[((k - 1) % Len(CandidateWeights)) + 1],
                        !.M = CandidateMs[(((k - 1) \div Len(CandidateWeights))
                                                % Len(CandidateMs)) + 1] ],
      targetPdf |-> CandidatePdfs[((k - 1) \div (Len(CandidateWeights) * Len(CandidateMs))) + 1] ]

\* The same collection of candidates is described once: kinds in non-decreasing order
CandidateCollections ==
    { c \in [1..NumCandidates -> 1..NumCandidateKinds] :
          \A i \in 1..(NumCandidates - 1) : c[i] <= c[i + 1] }

\* Values of RAB_GetNextRandom: floats in [0, 1)
Randoms == { FloatZero, Float(3, 4) }

GICombineCalls == [ fn : {"CombineGIReservoirs"}, candidates : CandidateCollections ]

GIReservoirCalls == GIPackCalls \cup GICombineCalls

GIReservoirInit ==
    /\ driven = "none"
    /\ di = ReSTIRDIContext_ctor([ CheckerboardSamplingMode |-> "Off",
                                    NeighborOffsetCount |-> NeighborOffsetCount ])
    /\ gi = ReSTIRGIContext_ctor([ CheckerboardSamplingMode |-> "Off" ])
    /\ lastCall = "ctor"
    /\ before = di
    /\ frames = << >>
    /\ call \in GIReservoirCalls
    /\ ret = << >>

\* The candidates already streamed
Streamed == { ret[j].index : j \in 1..Len(ret) }

\* One stream step: any candidate not streamed yet, with any random number, is combined
\* into the reservoir (the empty reservoir at first)
CombineGIReservoirs ==
    /\ call.fn = "CombineGIReservoirs"
    /\ \E i \in (1..NumCandidates) \ Streamed, random \in Randoms :
          LET reservoir == IF Len(ret) = 0 THEN RTXDI_EmptyGIReservoir
                                           ELSE ret[Len(ret)].reservoir
              c == Candidate(call.candidates[i])
              r == RTXDI_CombineGIReservoirs(reservoir, c.reservoir, random, c.targetPdf)
          IN ret' = Append(ret, [ index |-> i, reservoir |-> r.reservoir,
                                  selectSample |-> r.selectSample ])
    /\ UNCHANGED <<ctxVars, call>>

GIReservoirNext ==
    \/ PackGIReservoir
    \/ UnpackGIReservoir
    \/ CombineGIReservoirs

SpecGIReservoir == GIReservoirInit /\ [][GIReservoirNext]_vars

----------------------------------------------------------------------------
(* Claims about the GI reservoir functions *)

RoundTripKeeps ==
    /\ ret[2].res.M = call.reservoir.M
    /\ ret[2].res.age = call.reservoir.age
    /\ ret[2].res.weightSum = call.reservoir.weightSum
    /\ ret[2].res.position = call.reservoir.position

\* C11 as stated: for every GI reservoir with M <= 8191 and age <= 255, unpacking the
\* packed reservoir returns the same M, age, weightSum and position.
C11_Original_GIPackRoundTripUpTo8191 ==
    ( /\ call.fn = "PackGIReservoir"
      /\ Len(ret) = 2
      /\ call.reservoir.M <= WireMaxM
      /\ call.reservoir.age <= RTXDI_PackedGIReservoir_MaxAge ) => RoundTripKeeps

\* C11: for every GI reservoir with M <= 255 (RTXDI_PackedGIReservoir_MaxM) and age <= 255,
\* unpacking the packed reservoir returns the same M, age, weightSum and position; a
\* larger M is returned as 255, with age, weightSum and position still the same.
C11_GIPackRoundTripUpTo255 ==
    ( /\ call.fn = "PackGIReservoir"
      /\ Len(ret) = 2
      /\ call.reservoir.age <= RTXDI_PackedGIReservoir_MaxAge ) =>
        /\ call.reservoir.M <= RTXDI_PackedGIReservoir_MaxM => RoundTripKeeps
        /\ call.reservoir.M > RTXDI_PackedGIReservoir_MaxM =>
              /\ ret[2].res.M = RTXDI_PackedGIReservoir_MaxM
              /\ ret[2].res.age = call.reservoir.age
              /\ ret[2].res.weightSum = call.reservoir.weightSum
              /\ ret[2].res.position = call.reservoir.position

\* C11 witness: a reservoir with the largest M and age of the packed form, stored with
\* all miscData bits set, comes back with both
C11_Witness ==
    /\ call.fn = "PackGIReservoir"
    /\ Len(ret) = 2
    /\ call.reservoir.M = RTXDI_PackedGIReservoir_MaxM
    /\ call.reservoir.age = RTXDI_PackedGIReservoir_MaxAge
    /\ call.reservoir.position = 1
    /\ call.miscData = ToUint(-1)
    /\ ret[1].packed_miscData_age_M = ToUint(-1)
    /\ ret[2].res.M = RTXDI_PackedGIReservoir_MaxM
    /\ ret[2].res.age = RTXDI_PackedGIReservoir_MaxAge
    /\ ret[2].res.position = 1

\* Sum of the candidates' M over the indices in S
RECURSIVE SumOfM(_, _)
SumOfM(c, S) ==
    IF S = {} THEN 0
    ELSE LET i == CHOOSE j \in S : TRUE
         IN Candidate(c[i]).reservoir.M + SumOfM(c, S \ {i})

\* Sum of targetPdf * weightSum * M over the indices in S, in exact arithmetic (the
\* candidates' three factors are whole numbers)
RECURSIVE SumOfRisWeight(_, _)
SumOfRisWeight(c, S) ==
    IF S = {} THEN 0
    ELSE LET i == CHOOSE j \in S : TRUE
             k == Candidate(c[i])
         IN k.targetPdf.n * k.reservoir.weightSum.n * k.reservoir.M + SumOfRisWeight(c, S \ {i})

\* The reservoir after streaming candidates 1..n in that order
RECURSIVE StreamInOrder(_, _)
StreamInOrder(c, n) ==
    IF n = 0 THEN RTXDI_EmptyGIReservoir
    ELSE RTXDI_CombineGIReservoirs(StreamInOrder(c, n - 1), Candidate(c[n]).reservoir,
                                   FloatZero, Candidate(c[n]).targetPdf).reservoir

\* C15 as stated: whatever the order and the random numbers, the reservoir that has
\* received all the candidates has the same M and the same weightSum as the one that
\* received them in the order 1..NumCandidates.
C15_Original_StreamSumsOrderIndependent ==
    (call.fn = "CombineGIReservoirs" /\ Len(ret) = NumCandidates) =>
        /\ ret[Len(ret)].reservoir.M = StreamInOrder(call.candidates, NumCandidates).M
        /\ ret[Len(ret)].reservoir.weightSum
               = StreamInOrder(call.candidates, NumCandidates).weightSum

\* C15: after every stream step, whatever the order and the random numbers and whether
\* or not the candidate was selected, M is the sum of the streamed candidates' M, and
\* weightSum is the sum of their targetPdf * weightSum * M provided that sum is below
\* 2^24, where float addition is exact; above, the float sum depends on the order.
C15_StreamSumsOrderIndependentWhereExact ==
    (call.fn = "CombineGIReservoirs" /\ Len(ret) > 0) =>
        /\ ret[Len(ret)].reservoir.M = SumOfM(call.candidates, Streamed)
        /\ SumOfRisWeight(call.candidates, Streamed) < 2^FloatSignificandBits =>
              ret[Len(ret)].reservoir.weightSum
                  = [n |-> SumOfRisWeight(call.candidates, Streamed), d |-> 1]

\* C15 witness: all candidates streamed last to first, the last step not selecting its
\* candidate, with the sums those of the first-to-last order
C15_Witness ==
    /\ call.fn = "CombineGIReservoirs"
    /\ Len(ret) = NumCandidates
    /\ \A j \in 1..NumCandidates : ret[j].index = NumCandidates + 1 - j
    /\ ~ret[Len(ret)].selectSample
    /\ call.candidates[1] /= call.candidates[NumCandidates]
    /\ ret[Len(ret)].reservoir.M = StreamInOrder(call.candidates, NumCandidates).M
    /\ ret[Len(ret)].reservoir.M > NumCandidates
    /\ ret[Len(ret)].reservoir.weightSum
           = StreamInOrder(call.candidates, NumCandidates).weightSum

----------------------------------------------------------------------------
(* Application bridge (the RAB_ callbacks) and shared helpers of the resampling passes *)

RTXDI_BIAS_CORRECTION_OFF == 0
RTXDI_BIAS_CORRECTION_BASIC == 1
RTXDI_BIAS_CORRECTION_PAIRWISE == 2
RTXDI_BIAS_CORRECTION_RAY_TRACED == 3

\* A G-buffer surface: validity, normal, linear depth, material and world position (the
\* last four are whole numbers standing for the application's values)
RAB_EmptySurface == [ valid |-> FALSE, normal |-> 0, linearDepth |-> 0, material |-> 0, worldPos |-> 0 ]
RAB_IsSurfaceValid(surface) == surface.valid
RAB_GetSurfaceNormal(surface) == surface.normal
RAB_GetSurfaceLinearDepth(surface) == surface.linearDepth
RAB_GetSurfaceWorldPos(surface) == surface.worldPos
RAB_GetMaterial(surface) == surface.material
RAB_AreMaterialsSimilar(a, b) == a = b

\* dot(a, b) of two unit normals: equal normals are parallel, different ones orthogonal
NormalDot(a, b) == IF a = b THEN FloatOne ELSE FloatZero

\* RTXDI_IsValidNeighbor: the normals' dot product reaches normalThreshold and the
\* linear depths differ by at most depthThreshold, relative to the larger one
RTXDI_IsValidNeighbor(ourNorm, theirNorm, ourDepth, theirDepth, normalThreshold, depthThreshold) ==
    /\ FloatLe(normalThreshold, NormalDot(theirNorm, ourNorm))
    /\ FloatLe(FloatOfUint(AbsDiff(ourDepth, theirDepth)),
               FloatMul(depthThreshold, FloatOfUint(IF ourDepth >= theirDepth THEN ourDepth
                                                                              ELSE theirDepth)))

\* The target PDF of a GI sample at a surface: the luminance of its radiance, zero at an
\* invalid surface
RAB_GetGISampleTargetPdfForSurface(position, radiance, surface) ==
    IF RAB_IsSurfaceValid(surface) THEN FloatOfUint(radiance) ELSE FloatZero

\* Jacobians between 1/10 and 10 are accepted
RAB_ValidateGISampleWithJacobian(jacobian) ==
    FloatLe(Float(1, 10), jacobian) /\ FloatLe(jacobian, Float(10, 1))

----------------------------------------------------------------------------
(* GI/JacobianMath.hlsli, on a line: world positions are whole numbers, and the sample's
   normal points towards larger positions *)

\* distanceToSurface and cosineEmissionAngle; at distance 0 the cosine is
\* saturate(NaN) = 0
RTXDI_CalculatePartialJacobian(recieverPos, samplePos, sampleNormal) ==
    [ distanceToSurface |-> AbsDiff(recieverPos, samplePos),
      cosineEmissionAngle |-> IF recieverPos > samplePos THEN 1 ELSE 0 ]

RTXDI_CalculateJacobian(recieverPos, neighborReceiverPos, neighborReservoir) ==
    LET new == RTXDI_CalculatePartialJacobian(recieverPos, neighborReservoir.position,
                                              neighborReservoir.normal)
        original == RTXDI_CalculatePartialJacobian(neighborReceiverPos, neighborReservoir.position,
                                                   neighborReservoir.normal)
        numerator == new.cosineEmissionAngle * original.distanceToSurface * original.distanceToSurface
        denominator == original.cosineEmissionAngle * new.distanceToSurface * new.distanceToSurface
    IN \* a zero denominator gives inf or NaN, which is replaced by 0
       IF denominator = 0 THEN FloatZero ELSE Float(numerator, denominator)

----------------------------------------------------------------------------
(* The previous frame as the passes read it *)

\* The previous-frame G-buffer: the surface `inside` at the pixels of a region around
\* `origin`, the surface `outside` elsewhere
InRegion(scene, idx) ==
    CASE scene.region = "center" -> idx = scene.origin
      [] scene.region = "east"   -> idx.x > scene.origin.x
      [] scene.region = "west"   -> idx.x < scene.origin.x

RAB_GetGBufferSurface(scene, idx, previousFrame) ==
    IF InRegion(scene, idx) THEN scene.inside ELSE scene.outside

\* int(random * n) for a float random in [0, 1)
FloatToInt(f) == f.n \div f.d

----------------------------------------------------------------------------
(* GI/TemporalResampling.hlsli *)

temporalSampleCount == 5

BitOr(a, b) == IF a = 1 \/ b = 1 THEN 1 ELSE 0

RTXDI_CalculateTemporalResamplingOffset(sampleIdx0, radius) ==
    LET sampleIdx == sampleIdx0 % 8
        mask2 == (sampleIdx \div 2) % 2
        mask4 == 1 - ((sampleIdx \div 4) % 2)
        tmp0 == -1 + 2 * (sampleIdx % 2)
        tmp1 == 1 - 2 * mask2
        tmp2 == BitOr(mask4, mask2)
        tmp3 == BitOr(mask4, 1 - mask2)
    IN [x |-> tmp0 * tmp2 * radius, y |-> tmp0 * tmp1 * tmp3 * radius]

\* The previous-frame pixel that iteration i of the search loop looks at (lines 414-436)
GITemporalSampleIdx(i, pixelPosition, rng, params, tparams) ==
    LET radius == IF params.activeCheckerboardField = 0 THEN 1 ELSE 2
        temporalSampleStartIdx == FloatToInt(FloatMul(rng[1], FloatOfUint(8)))
        isFirstSample == i = 0
        isFallbackSample == i = temporalSampleCount
        \* round(pixelPosition + screenSpaceMotion.xy); the fallback uses the pixel itself
        prevPos == IF isFallbackSample
                   THEN pixelPosition
                   ELSE [x |-> pixelPosition.x + tparams.screenSpaceMotion.x,
                         y |-> pixelPosition.y + tparams.screenSpaceMotion.y]
        offset == IF isFallbackSample \/ isFirstSample
                  THEN [x |-> 0, y |-> 0]
                  ELSE RTXDI_CalculateTemporalResamplingOffset(temporalSampleStartIdx + i, radius)
        idx == [x |-> prevPos.x + offset.x, y |-> prevPos.y + offset.y]
        permuted == IF (tparams.enablePermutationSampling /\ isFirstSample) \/ isFallbackSample
                    THEN RTXDI_ApplyPermutationSampling(idx, tparams.uniformRandomNumber)
                    ELSE idx
    IN RTXDI_ActivateCheckerboardPixel_int2(permuted, TRUE, params.activeCheckerboardField)

\* Defective variant: the materials are not compared
GITemporalSampleAccepted_NoMaterialTest(i, pixelPosition, surface, rng, params, scene, prevReservoir, tparams) ==
    LET isFallbackSample == i = temporalSampleCount
        expectedPrevLinearDepth == RAB_GetSurfaceLinearDepth(surface) + tparams.screenSpaceMotion.z
        temporalSurface ==
            RAB_GetGBufferSurface(scene, GITemporalSampleIdx(i, pixelPosition, rng, params, tparams), TRUE)
    IN /\ RAB_IsSurfaceValid(temporalSurface)
       /\ isFallbackSample
            \/ RTXDI_IsValidNeighbor(RAB_GetSurfaceNormal(surface), RAB_GetSurfaceNormal(temporalSurface),
                                     expectedPrevLinearDepth, RAB_GetSurfaceLinearDepth(temporalSurface),
                                     tparams.normalThreshold, tparams.depthThreshold)
       /\ RTXDI_IsValidGIReservoir(RTXDI_UnpackGIReservoir(prevReservoir).res)

\* Whether iteration i of the search loop reaches `break` (lines 438-473). Every cell of
\* the previous frame's reservoir buffer holds the packed reservoir prevReservoir.
GITemporalSampleAccepted(i, pixelPosition, surface, rng, params, scene, prevReservoir, tparams) ==
    LET isFallbackSample == i = temporalSampleCount
        expectedPrevLinearDepth == RAB_GetSurfaceLinearDepth(surface) + tparams.screenSpaceMotion.z
        temporalSurface ==
            RAB_GetGBufferSurface(scene, GITemporalSampleIdx(i, pixelPosition, rng, params, tparams), TRUE)
    IN /\ RAB_IsSurfaceValid(temporalSurface)
       /\ isFallbackSample
            \/ RTXDI_IsValidNeighbor(RAB_GetSurfaceNormal(surface), RAB_GetSurfaceNormal(temporalSurface),
                                     expectedPrevLinearDepth, RAB_GetSurfaceLinearDepth(temporalSurface),
                                     tparams.normalThreshold, tparams.depthThreshold)
       /\ RAB_AreMaterialsSimilar(RAB_GetMaterial(surface), RAB_GetMaterial(temporalSurface))
       /\ RTXDI_IsValidGIReservoir(RTXDI_UnpackGIReservoir(prevReservoir).res)

\* The search loop from iteration i on (lines 410-474): the iteration that breaks, or
\* sampleCount if the loop runs to its end
RECURSIVE GITemporalSearch(_, _, _, _, _, _, _, _)
GITemporalSearch(i, pixelPosition, surface, rng, params, scene, prevReservoir, tparams) ==
    LET sampleCount == temporalSampleCount + (IF tparams.enableFallbackSampling THEN 1 ELSE 0)
    IN IF i >= sampleCount THEN sampleCount
       ELSE IF GITemporalSampleAccepted(i, pixelPosition, surface, rng, params, scene,
                                        prevReservoir, tparams)
            THEN i
            ELSE GITemporalSearch(i + 1, pixelPosition, surface, rng, params, scene,
                                  prevReservoir, tparams)

\* The initial sample is streamed into the empty reservoir (lines 476-484)
GITemporalStreamInput(surface, inputReservoir) ==
    IF RTXDI_IsValidGIReservoir(inputReservoir)
    THEN [ curReservoir |->
               RTXDI_CombineGIReservoirs(RTXDI_EmptyGIReservoir, inputReservoir, Float(1, 2),
                   RAB_GetGISampleTargetPdfForSurface(inputReservoir.position,
                                                      inputReservoir.radiance, surface)).reservoir,
           selectedTargetPdf |->
               RAB_GetGISampleTargetPdfForSurface(inputReservoir.position,
                                                  inputReservoir.radiance, surface) ]
    ELSE [ curReservoir |-> RTXDI_EmptyGIReservoir, selectedTargetPdf |-> FloatZero ]

\* Defective variant: the history length is not clamped
GITemporalAdjust_NoClamp(temporalReservoir, jacobian, tparams) ==
    [ temporalReservoir |->
          [ temporalReservoir EXCEPT
              !.weightSum = FloatMul(temporalReservoir.weightSum, jacobian),
              !.age = temporalReservoir.age + 1 ],
      foundTemporalReservoir |->
          /\ RAB_ValidateGISampleWithJacobian(jacobian)
          /\ ~(temporalReservoir.age + 1 > tparams.maxReservoirAge) ]

\* The found temporal reservoir is reweighted by the Jacobian, clamped and aged (lines
\* 496-505); foundTemporalReservoir is cleared if the Jacobian or the age rejects it
GITemporalAdjust(temporalReservoir, jacobian, tparams) ==
    [ temporalReservoir |->
          [ temporalReservoir EXCEPT
              !.weightSum = FloatMul(temporalReservoir.weightSum, jacobian),
              !.M = Min(temporalReservoir.M, tparams.maxHistoryLength),
              !.age = temporalReservoir.age + 1 ],
      foundTemporalReservoir |->
          /\ RAB_ValidateGISampleWithJacobian(jacobian)
          /\ ~(temporalReservoir.age + 1 > tparams.maxReservoirAge) ]

\* The adjusted temporal reservoir is combined into the current one (lines 508-520)
GITemporalCombine(cur, adjusted, combined, targetPdf) ==
    IF adjusted.foundTemporalReservoir
    THEN [ curReservoir |-> combined.reservoir,
           selectedTargetPdf |-> IF combined.selectSample THEN targetPdf ELSE cur.selectedTargetPdf,
           selectedPreviousSample |-> combined.selectSample,
           foundTemporalReservoir |-> TRUE,
           temporalReservoir |-> adjusted.temporalReservoir ]
    ELSE [ curReservoir |-> cur.curReservoir,
           selectedTargetPdf |-> cur.selectedTargetPdf,
           selectedPreviousSample |-> FALSE,
           foundTemporalReservoir |-> FALSE,
           temporalReservoir |-> adjusted.temporalReservoir ]

\* temporalP of the bias correction (lines 530-539)
GITemporalP(visibility, tparams, temporalP) ==
    IF /\ tparams.biasCorrectionMode = RTXDI_BIAS_CORRECTION_RAY_TRACED
       /\ FloatGt(temporalP, FloatZero)
       /\ ~visibility
    THEN FloatZero
    ELSE temporalP

\* Normalization (lines 522-558); temporalP is used only where the code computes it
GITemporalNormalize(cur, inputReservoir, tparams, temporalP) ==
    IF tparams.biasCorrectionMode >= RTXDI_BIAS_CORRECTION_BASIC
    THEN IF RTXDI_IsValidGIReservoir(cur.curReservoir) /\ cur.foundTemporalReservoir
         THEN RTXDI_FinalizeGIResampling(cur.curReservoir,
                  IF cur.selectedPreviousSample THEN temporalP ELSE cur.selectedTargetPdf,
                  FloatMul(FloatAdd(FloatMul(cur.selectedTargetPdf, FloatOfUint(inputReservoir.M)),
                                    FloatMul(temporalP, FloatOfUint(cur.temporalReservoir.M))),
                           cur.selectedTargetPdf))
         ELSE RTXDI_FinalizeGIResampling(cur.curReservoir, cur.selectedTargetPdf,
                  FloatMul(FloatMul(cur.selectedTargetPdf, FloatOfUint(inputReservoir.M)),
                           cur.selectedTargetPdf))
    ELSE RTXDI_FinalizeGIResampling(cur.curReservoir, FloatOne,
             FloatMul(cur.selectedTargetPdf, FloatOfUint(cur.curReservoir.M)))

\* Lines 508-560, given the state after line 506
GITemporalFinish(surface, inputReservoir, visibility, tparams, temporalSurface, cur, found) ==
    [ curReservoir |->
          GITemporalNormalize(cur, inputReservoir, tparams,
              GITemporalP(visibility, tparams,
                  RAB_GetGISampleTargetPdfForSurface(cur.curReservoir.position,
                                                     cur.curReservoir.radiance, temporalSurface))),
      found |-> found,
      temporalSurface |-> temporalSurface,
      temporalReservoir |-> cur.temporalReservoir,
      foundTemporalReservoir |-> cur.foundTemporalReservoir,
      selectedPreviousSample |-> cur.selectedPreviousSample ]

\* Lines 476-520, given the outcome of the search loop
GITemporalReuse(surface, inputReservoir, rng, visibility, tparams, temporalSurface, found, cur, adjusted) ==
    GITemporalFinish(surface, inputReservoir, visibility, tparams, temporalSurface,
        GITemporalCombine(cur, adjusted,
            RTXDI_CombineGIReservoirs(cur.curReservoir, adjusted.temporalReservoir, rng[2],
                RAB_GetGISampleTargetPdfForSurface(adjusted.temporalReservoir.position,
                                                   adjusted.temporalReservoir.radiance, surface)),
            RAB_GetGISampleTargetPdfForSurface(adjusted.temporalReservoir.position,
                                               adjusted.temporalReservoir.radiance, surface)),
        found)

\* The pass after the search loop has ended at iteration `found` (sampleCount: no break)
\* with temporalSurface and temporalReservoir as the loop left them
GITemporalAfterSearch(surface, inputReservoir, rng, visibility, tparams, found, sampleCount, temporalSurface, temporalReservoir) ==
    GITemporalReuse(surface, inputReservoir, rng, visibility, tparams, temporalSurface, found,
        GITemporalStreamInput(surface, inputReservoir),
        IF found < sampleCount
        THEN GITemporalAdjust(temporalReservoir,
                 RTXDI_CalculateJacobian(RAB_GetSurfaceWorldPos(surface),
                                         RAB_GetSurfaceWorldPos(temporalSurface),
                                         temporalReservoir),
                 tparams)
        ELSE [ temporalReservoir |-> temporalReservoir, foundTemporalReservoir |-> FALSE ])

\* RTXDI_GITemporalResampling. rng holds the values RAB_GetNextRandom returns, in order;
\* visibility is what RAB_GetTemporalConservativeVisibility returns. Besides the returned
\* reservoir (curReservoir) the result reports the iteration at which the search loop
\* broke (sampleCount if it did not), the surface and reservoir it ended with and the
\* two flags.
RTXDI_GITemporalResampling(pixelPosition, surface, inputReservoir, rng, visibility, params, scene, prevReservoir, tparams) ==
    GITemporalAfterSearch(surface, inputReservoir, rng, visibility, tparams,
        GITemporalSearch(0, pixelPosition, surface, rng, params, scene, prevReservoir, tparams),
        temporalSampleCount + (IF tparams.enableFallbackSampling THEN 1 ELSE 0),
        RAB_GetGBufferSurface(scene,
            GITemporalSampleIdx(
                Min(GITemporalSearch(0, pixelPosition, surface, rng, params, scene,
                                     prevReservoir, tparams),
                    temporalSampleCount + (IF tparams.enableFallbackSampling THEN 1 ELSE 0) - 1),
                pixelPosition, rng, params, tparams), TRUE),
        RTXDI_UnpackGIReservoir(prevReservoir).res)

----------------------------------------------------------------------------
(* Invocations of GI temporal resampling *)

\* The current surface and the kinds of previous-frame surface
CurrentSurface == [ valid |-> TRUE, normal |-> 0, linearDepth |-> 1, material |-> 0, worldPos |-> 1 ]
OtherNormalSurface == [ CurrentSurface EXCEPT !.normal = 1 ]
OtherDepthSurface == [ CurrentSurface EXCEPT !.linearDepth = 2 ]
OtherMaterialSurface == [ CurrentSurface EXCEPT !.material = 1 ]
SurfaceKinds ==
    { CurrentSurface, RAB_EmptySurface, OtherNormalSurface, OtherDepthSurface, OtherMaterialSurface }

ShadedPixel == [x |-> 4, y |-> 4]

Scenes ==
    [ origin : {ShadedPixel}, region : {"center", "east"}, inside : SurfaceKinds,
      outside : {CurrentSurface, RAB_EmptySurface} ]

BiasCorrectionModes ==
    { RTXDI_BIAS_CORRECTION_OFF, RTXDI_BIAS_CORRECTION_BASIC, RTXDI_BIAS_CORRECTION_PAIRWISE,
      RTXDI_BIAS_CORRECTION_RAY_TRACED }

\* Reservoirs a pass can find in the previous frame's buffer: M and age at both ends of
\* the packed range
HistoryMs == {0, 1, RTXDI_PackedGIReservoir_MaxM}
HistoryAges == {0, 1, RTXDI_PackedGIReservoir_MaxAge - 1, RTXDI_PackedGIReservoir_MaxAge}
MaxReservoirAges == {1, RTXDI_PackedGIReservoir_MaxAge, RTXDI_PackedGIReservoir_MaxAge + 1}

GIHistory(positions, ages) ==
    { RTXDI_PackGIReservoir([ position |-> p, normal |-> 0, radiance |-> 2,
                              weightSum |-> FloatOne, M |-> m, age |-> a ], ToUint(0)) :
          p \in positions, m \in HistoryMs, a \in ages }

\* The initial samples a frame feeds the pass: none, or a fresh sample
GIInitialSamples ==
    {RTXDI_EmptyGIReservoir}
        \cup { RTXDI_MakeGIReservoir(p, 0, 1, FloatOne) : p \in Vectors }

GITemporalResamplingParameters ==
    [ screenSpaceMotion : {[x |-> 0, y |-> 0, z |-> 0]},
      maxHistoryLength : {20},
      biasCorrectionMode : BiasCorrectionModes,
      depthThreshold : {Float(1, 10)},
      normalThreshold : {Float(1, 2)},
      maxReservoirAge : {1, RTXDI_PackedGIReservoir_MaxAge},
      enablePermutationSampling : BOOLEAN,
      enableFallbackSampling : BOOLEAN,
      uniformRandomNumber : {6} ]

GITemporalCalls ==
    [ fn : {"GITemporalResampling"},
      pixelPosition : {ShadedPixel},
      params : [ activeCheckerboardField : {0} ],
      tparams : GITemporalResamplingParameters,
      inputReservoir : GIInitialSamples,
      scene : Scenes,
      rng : [1..2 -> Randoms],
      visibility : BOOLEAN,
      prevReservoir : GIHistory(Vectors, {0, RTXDI_PackedGIReservoir_MaxAge}) ]

GITemporalInit ==
    /\ driven = "none"
    /\ di = ReSTIRDIContext_ctor([ CheckerboardSamplingMode |-> "Off",
                                    NeighborOffsetCount |-> NeighborOffsetCount ])
    /\ gi = ReSTIRGIContext_ctor([ CheckerboardSamplingMode |-> "Off" ])
    /\ lastCall = "ctor"
    /\ before = di
    /\ frames = << >>
    /\ call \in GITemporalCalls
    \* the visibility ray is traced only in the ray-traced mode
    /\ call.tparams.biasCorrectionMode /= RTXDI_BIAS_CORRECTION_RAY_TRACED => call.visibility
    /\ ret = << >>

GITemporalResampling ==
    /\ call.fn = "GITemporalResampling"
    /\ Len(ret) = 0
    /\ ret' = << RTXDI_GITemporalResampling(call.pixelPosition, CurrentSurface,
                     call.inputReservoir, call.rng, call.visibility, call.params, call.scene,
                     call.prevReservoir, call.tparams) >>
    /\ UNCHANGED <<ctxVars, call>>

GITemporalNext == GITemporalResampling

SpecGITemporal == GITemporalInit /\ [][GITemporalNext]_vars

----------------------------------------------------------------------------
(* Frames of GI temporal resampling at one pixel: each frame's output is stored and is
   the next frame's temporal source *)

\* Number of frames rendered
MaxGIFrames == 2

GIFramesParameters ==
    [ screenSpaceMotion : {[x |-> 0, y |-> 0, z |-> 0]},
      maxHistoryLength : {20},
      biasCorrectionMode : {RTXDI_BIAS_CORRECTION_BASIC},
      depthThreshold : {Float(1, 10)},
      normalThreshold : {Float(1, 2)},
      maxReservoirAge : MaxReservoirAges,
      enablePermutationSampling : {FALSE},
      enableFallbackSampling : BOOLEAN,
      uniformRandomNumber : {6} ]

GIFramesCalls ==
    [ fn : {"GIFrames"},
      pixelPosition : {ShadedPixel},
      params : [ activeCheckerboardField : {0} ],
      tparams : GIFramesParameters ]

\* Before the first frame the buffer holds a reservoir the pass stored in earlier frames
\* under the same parameters
GIFramesInit ==
    /\ driven = "none"
    /\ di = ReSTIRDIContext_ctor([ CheckerboardSamplingMode |-> "Off",
                                    NeighborOffsetCount |-> NeighborOffsetCount ])
    /\ gi = ReSTIRGIContext_ctor([ CheckerboardSamplingMode |-> "Off" ])
    /\ lastCall = "ctor"
    /\ before = di
    /\ frames = << >>
    /\ call \in GIFramesCalls
    /\ \E stored \in GIHistory({0}, { h \in HistoryAges : h <= call.tparams.maxReservoirAge }) :
          ret = << [ frame |-> 0, stored |-> stored ] >>

\* One frame: the pass runs on the reservoir the previous frame stored and its output is
\* stored (RTXDI_StoreGIReservoir) for the next frame
GITemporalFrame ==
    /\ call.fn = "GIFrames"
    /\ ret[1].frame < MaxGIFrames
    /\ \E inputReservoir \in GIInitialSamples, rng \in [1..2 -> Randoms],
          scene \in { sc \in Scenes : sc.region = "east" /\ sc.inside = sc.outside } :
          \E result \in { RTXDI_GITemporalResampling(call.pixelPosition, CurrentSurface,
                              inputReservoir, rng, TRUE, call.params, scene,
                              ret[1].stored, call.tparams) } :
              ret' = << [ frame |-> ret[1].frame + 1,
                          inputReservoir |-> inputReservoir,
                          prevReservoir |-> ret[1].stored,
                          result |-> result,
                          stored |-> RTXDI_PackGIReservoir(result.curReservoir, ToUint(0)) ] >>
    /\ UNCHANGED <<ctxVars, call>>

GIFramesNext == GITemporalFrame

SpecGIFrames == GIFramesInit /\ [][GIFramesNext]_vars

----------------------------------------------------------------------------
(* Claims about GI temporal resampling over frames *)

StoredAge(packed) == RTXDI_UnpackGIReservoir(packed).res.age

\* C12 as stated: in every frame, (a) if the temporal sample is kept, the stored age is
\* larger than the age stored by the previous frame; (b) if the previous frame's sample,
\* one frame older, exceeds maxReservoirAge, it is discarded and the output holds the
\* initial sample only; (c) the stored age is at most maxReservoirAge.
C12_Original_StoredAgeStrictlyIncreases ==
    (call.fn = "GIFrames" /\ ret[1].frame > 0) =>
        /\ ret[1].result.selectedPreviousSample =>
              StoredAge(ret[1].stored) > StoredAge(ret[1].prevReservoir)
        /\ StoredAge(ret[1].prevReservoir) + 1 > call.tparams.maxReservoirAge =>
              /\ ~ret[1].result.foundTemporalReservoir
              /\ ret[1].result.curReservoir.M = ret[1].inputReservoir.M
              /\ ret[1].result.curReservoir.age = ret[1].inputReservoir.age
        /\ StoredAge(ret[1].stored) <= call.tparams.maxReservoirAge

----------------------------------------------------------------------------
(* Claim C17 *)

\* C17: after construction and after every SetFrameIndex, the DI runtime
\* parameters' activeCheckerboardField is 0 when the checkerboard mode is Off, 1 on
\* odd and 2 on even frames when it is Black, 2 on odd and 1 on even frames when it
\* is White; hence it is always one of 0, 1, 2 and is 0 exactly when the mode is Off.
C17_CheckerboardFieldFollowsModeAndFrame ==
    driven = "DI" =>
        LET mode  == di.m_staticParams.CheckerboardSamplingMode
            odd   == di.m_frameIndex % 2 = 1
            field == di.m_runtimeParams.activeCheckerboardField
        IN /\ mode = "Off" => field = 0
           /\ mode = "Black" => field = (IF odd THEN 1 ELSE 2)
           /\ mode = "White" => field = (IF odd THEN 2 ELSE 1)
           /\ field \in {0, 1, 2}
           /\ (field = 0) <=> (mode = "Off")

\* A Black checkerboard whose field has moved from 2 (frame 0, construction) to 1
\* (an odd frame), seen right after a SetFrameIndex
C17_Witness ==
    /\ driven = "DI"
    /\ lastCall = "SetFrameIndex"
    /\ di.m_staticParams.CheckerboardSamplingMode = "Black"
    /\ di.m_frameIndex % 2 = 1
    /\ before.m_runtimeParams.activeCheckerboardField = 2
    /\ di.m_runtimeParams.activeCheckerboardField = 1

----------------------------------------------------------------------------
(* Construction of the contexts *)

\* i & (i - 1) on unsigned values
RECURSIVE UintBitAnd(_, _)
UintBitAnd(a, b) ==
    IF a = 0 \/ b = 0 THEN 0
    ELSE (a % 2) * (b % 2) + 2 * UintBitAnd(a \div 2, b \div 2)

\* bool IsNonzeroPowerOf2(uint32_t i); for i = 0 the wrapped i - 1 is all ones and
\* 0 & (i - 1) is 0
IsNonzeroPowerOf2(i) ==
    /\ (IF i = 0 THEN 0 ELSE UintBitAnd(i, i - 1)) = 0
    /\ i > 0

\* assert(e) of <cassert>: does nothing when NDEBUG is defined; otherwise a false e
\* terminates the process through abort(). TRUE when execution goes on past it.
PassesDebugCheck(ndebug, e) == ndebug \/ e

\* void debugCheckParameters(const ReSTIRDIStaticParameters& params)
debugCheckParameters_ReSTIRDI(ndebug, params) ==
    /\ PassesDebugCheck(ndebug, params.RenderWidth > 0)
    /\ PassesDebugCheck(ndebug, params.RenderHeight > 0)

\* void debugCheckParameters(const RISBufferSegmentParameters&, const RISBufferSegmentParameters&)
debugCheckParameters_RISBuffer(ndebug, localLightRISBufferParams, environmentLightRISBufferParams) ==
    /\ PassesDebugCheck(ndebug, IsNonzeroPowerOf2(localLightRISBufferParams.tileSize))
    /\ PassesDebugCheck(ndebug, IsNonzeroPowerOf2(localLightRISBufferParams.tileCount))
    /\ PassesDebugCheck(ndebug, IsNonzeroPowerOf2(environmentLightRISBufferParams.tileSize))
    /\ PassesDebugCheck(ndebug, IsNonzeroPowerOf2(environmentLightRISBufferParams.tileCount))

\* What a `new Context(params)` expression comes to: the constructed object, or the
\* process terminated inside the constructor. No constructor throws or returns a status.
Constructed(object) == [outcome |-> "constructed", object |-> object]
Aborted == [outcome |-> "aborted"]

\* ReSTIRDIContext::ReSTIRDIContext with its debug check and its buffer parameters
NewReSTIRDIContext(ndebug, params) ==
    IF debugCheckParameters_ReSTIRDI(ndebug, params)
    THEN Constructed([ context |-> ReSTIRDIContext_ctor(params),
                       m_reservoirBufferParams |->
                           CalculateReservoirBufferParameters(params.RenderWidth, params.RenderHeight) ])
    ELSE Aborted

\* ReSTIRGIContext::ReSTIRGIContext: member initialisers and an empty body
NewReSTIRGIContext(ndebug, staticParams) ==
    Constructed([ context |-> ReSTIRGIContext_ctor(staticParams),
                  m_reservoirBufferParams |->
                      CalculateReservoirBufferParameters(staticParams.RenderWidth, staticParams.RenderHeight) ])

\* ImportanceSamplingContext::ImportanceSamplingContext: the RIS buffer check, the
\* segment parameters, then the ReSTIR DI and the ReSTIR GI context (the segment
\* allocator and the ReGIR context are classes of other translation units)
NewImportanceSamplingContext_Built(isParams, restirDI, restirGI) ==
    IF restirDI.outcome = "aborted" \/ restirGI.outcome = "aborted" THEN Aborted
    ELSE Constructed([ m_localLightRISBufferSegmentParams |->
                           [ tileCount |-> isParams.localLightRISBufferParams.tileCount,
                             tileSize  |-> isParams.localLightRISBufferParams.tileSize ],
                       m_environmentLightRISBufferSegmentParams |->
                           [ tileCount |-> isParams.environmentLightRISBufferParams.tileCount,
                             tileSize  |-> isParams.environmentLightRISBufferParams.tileSize ],
                       m_restirDIContext |-> restirDI.object,
                       m_restirGIContext |-> restirGI.object ])

NewImportanceSamplingContext(ndebug, isParams) ==
    IF ~debugCheckParameters_RISBuffer(ndebug, isParams.localLightRISBufferParams,
                                       isParams.environmentLightRISBufferParams)
    THEN Aborted
    ELSE NewImportanceSamplingContext_Built(isParams,
             NewReSTIRDIContext(ndebug, [ CheckerboardSamplingMode |-> isParams.CheckerboardSamplingMode,
                                          NeighborOffsetCount |-> isParams.NeighborOffsetCount,
                                          RenderWidth |-> isParams.renderWidth,
                                          RenderHeight |-> isParams.renderHeight ]),
             NewReSTIRGIContext(ndebug, [ CheckerboardSamplingMode |-> isParams.CheckerboardSamplingMode,
                                          RenderWidth |-> isParams.renderWidth,
                                          RenderHeight |-> isParams.renderHeight ]))

----------------------------------------------------------------------------
(* The host constructing one context *)

\* Render extents are drawn from 0..MaxExtent, tile sizes and counts from 0..MaxTile
MaxExtent == 2
MaxTile == 4

RenderExtents == 0 .. MaxExtent
TileValues == 0 .. MaxTile
RISBufferSegmentParameters == [tileSize : TileValues, tileCount : TileValues]

ConstructCalls ==
    [fn : {"ReSTIRDIContext"}, ndebug : BOOLEAN,
     params : [ CheckerboardSamplingMode : CheckerboardModes, NeighborOffsetCount : {NeighborOffsetCount},
                RenderWidth : RenderExtents, RenderHeight : RenderExtents ]]
    \cup
    [fn : {"ReSTIRGIContext"}, ndebug : BOOLEAN,
     params : [ CheckerboardSamplingMode : CheckerboardModes,
                RenderWidth : RenderExtents, RenderHeight : RenderExtents ]]
    \cup
    [fn : {"ImportanceSamplingContext"}, ndebug : BOOLEAN,
     params : [ CheckerboardSamplingMode : {"Off"}, NeighborOffsetCount : {NeighborOffsetCount},
                renderWidth : RenderExtents, renderHeight : RenderExtents,
                localLightRISBufferParams : RISBufferSegmentParameters,
                environmentLightRISBufferParams : RISBufferSegmentParameters ]]

ConstructInit ==
    /\ driven = "none"
    /\ di = ReSTIRDIContext_ctor([ CheckerboardSamplingMode |-> "Off",
                                    NeighborOffsetCount |-> NeighborOffsetCount ])
    /\ gi = ReSTIRGIContext_ctor([ CheckerboardSamplingMode |-> "Off" ])
    /\ lastCall = "ctor"
    /\ before = di
    /\ frames = << >>
    /\ call \in ConstructCalls
    /\ ret = << >>

ConstructReSTIRDIContext ==
    /\ call.fn = "ReSTIRDIContext"
    /\ Len(ret) = 0
    /\ ret' = <<NewReSTIRDIContext(call.ndebug, call.params)>>
    /\ UNCHANGED <<ctxVars, call>>

ConstructReSTIRGIContext ==
    /\ call.fn = "ReSTIRGIContext"
    /\ Len(ret) = 0
    /\ ret' = <<NewReSTIRGIContext(call.ndebug, call.params)>>
    /\ UNCHANGED <<ctxVars, call>>

ConstructImportanceSamplingContext ==
    /\ call.fn = "ImportanceSamplingContext"
    /\ Len(ret) = 0
    /\ ret' = <<NewImportanceSamplingContext(call.ndebug, call.params)>>
    /\ UNCHANGED <<ctxVars, call>>

ConstructNext ==
    \/ ConstructReSTIRDIContext
    \/ ConstructReSTIRGIContext
    \/ ConstructImportanceSamplingContext

SpecConstruct == ConstructInit /\ [][ConstructNext]_vars

----------------------------------------------------------------------------
(* Claim C16 *)

\* The configurations the specification calls construction-time errors
ZeroExtent(params) ==
    IF call.fn = "ImportanceSamplingContext"
    THEN params.renderWidth = 0 \/ params.renderHeight = 0
    ELSE params.RenderWidth = 0 \/ params.RenderHeight = 0

BadRISBuffer(params) ==
    /\ call.fn = "ImportanceSamplingContext"
    /\ \/ ~IsNonzeroPowerOf2(params.localLightRISBufferParams.tileSize)
       \/ ~IsNonzeroPowerOf2(params.localLightRISBufferParams.tileCount)
       \/ ~IsNonzeroPowerOf2(params.environmentLightRISBufferParams.tileSize)
       \/ ~IsNonzeroPowerOf2(params.environmentLightRISBufferParams.tileCount)

\* C16: constructing a ReSTIRDIContext, a ReSTIRGIContext or an
\* ImportanceSamplingContext with a zero render width or height, or with a RIS
\* buffer tile size or tile count that is not a nonzero power of two, fails: no
\* context object comes out of the constructor.
C16_Original_InvalidConfigurationFailsConstruction ==
    (call.fn \in {"ReSTIRDIContext", "ReSTIRGIContext", "ImportanceSamplingContext"}
        /\ Len(ret) = 1
        /\ (ZeroExtent(call.params) \/ BadRISBuffer(call.params))) =>
            ret[1].outcome # "constructed"

----------------------------------------------------------------------------
(* DI/Reservoir.hlsli: the direct-illumination reservoir and its operations *)

\* Largest M the packed DI reservoir holds (13 bits)
RTXDI_PackedDIReservoir_MaxM == 8191

\* RTXDI_DIReservoir_LightValidBit = 0x80000000 and RTXDI_DIReservoir_LightIndexMask =
\* 0x7fffffff, on a uint held as two limbs
RTXDI_DIReservoir_LightValidBit == [hi |-> 32768, lo |-> 0]
RTXDI_DIReservoir_LightIndexMasked(u) == [hi |-> u.hi % 32768, lo |-> u.lo]

\* mappedLightID | RTXDI_DIReservoir_LightValidBit
WithLightValidBit(lightID) ==
    [hi |-> 32768 + (ToUint(lightID).hi % 32768), lo |-> ToUint(lightID).lo]

RTXDI_EmptyDIReservoir ==
    [ lightData |-> ToUint(0), uvData |-> 0, targetPdf |-> FloatZero, weightSum |-> FloatZero,
      M |-> 0, age |-> 0, spatialDistance |-> [x |-> 0, y |-> 0], canonicalWeight |-> FloatZero ]

RTXDI_IsValidDIReservoir(reservoir) == reservoir.lightData /= ToUint(0)

RTXDI_GetDIReservoirLightIndex(reservoir) ==
    ToInt(RTXDI_DIReservoir_LightIndexMasked(reservoir.lightData))

RTXDI_GetDIReservoirSampleUV(reservoir) == reservoir.uvData

\* RTXDI_InternalSimpleResample: the stream step with an explicit normalization and
\* sample count (sampleM is a float; the uint M takes the truncated sum). Returns the
\* updated reservoir (the inout parameter) and the bool result.
RTXDI_InternalSimpleResample(reservoir, newReservoir, random, targetPdf, sampleNormalization, sampleM) ==
    LET risWeight == FloatMul(targetPdf, sampleNormalization)
        M == (FloatAdd(FloatOfUint(reservoir.M), sampleM)).n \div (FloatAdd(FloatOfUint(reservoir.M), sampleM)).d
        weightSum == FloatAdd(reservoir.weightSum, risWeight)
        selectSample == FloatLe(FloatMul(random, weightSum), risWeight)
        summed == [ reservoir EXCEPT !.M = M, !.weightSum = weightSum ]
    IN [ reservoir |->
             IF selectSample
             THEN [ summed EXCEPT !.lightData = newReservoir.lightData,
                                  !.uvData = newReservoir.uvData,
                                  !.targetPdf = targetPdf,
                                  !.spatialDistance = newReservoir.spatialDistance,
                                  !.age = newReservoir.age ]
             ELSE summed,
         selectSample |-> selectSample ]

\* RTXDI_CombineDIReservoirs: w = targetPdf * newReservoir.weightSum * newReservoir.M
RTXDI_CombineDIReservoirs(reservoir, newReservoir, random, targetPdf) ==
    RTXDI_InternalSimpleResample(reservoir, newReservoir, random, targetPdf,
        FloatMul(newReservoir.weightSum, FloatOfUint(newReservoir.M)),
        FloatOfUint(newReservoir.M))

\* RTXDI_FinalizeResampling: the DI operator multiplies the denominator it is given by
\* the reservoir's own targetPdf
RTXDI_FinalizeResampling(reservoir, normalizationNumerator, normalizationDenominator) ==
    LET denominator == FloatMul(reservoir.targetPdf, normalizationDenominator)
    IN [ reservoir EXCEPT !.weightSum =
             IF denominator = FloatZero
             THEN FloatZero
             ELSE FloatDiv(FloatMul(reservoir.weightSum, normalizationNumerator), denominator) ]

\* RTXDI_NAIVE_SAMPLING_M_THRESHOLD, a macro of the including shader
RTXDI_NAIVE_SAMPLING_M_THRESHOLD == 2

\* a - b for a >= b
FloatSub(a, b) == Float(a.n * b.d - b.n * a.d, a.d * b.d)
FloatMin(a, b) == IF FloatLe(a, b) THEN a ELSE b
FloatPow8(a) ==
    FloatMul(FloatMul(FloatMul(a, a), FloatMul(a, a)), FloatMul(FloatMul(a, a), FloatMul(a, a)))

\* RTXDI_MFactor(q0, q1) = q0 <= 0 ? 1 : clamp(pow(min(q1 / q0, 1), 8), 0, 1)
RTXDI_MFactor(q0, q1) ==
    IF FloatLe(q0, FloatZero) THEN FloatOne
    ELSE FloatPow8(FloatMin(FloatDiv(q1, q0), FloatOne))

\* RTXDI_PairwiseMisWeight(w0, w1, M0, M1): the balance heuristic of the pair
RTXDI_PairwiseMisWeight(w0, w1, M0, M1) ==
    LET balanceDenom == FloatAdd(FloatMul(M0, w0), FloatMul(M1, w1))
    IN IF FloatLe(balanceDenom, FloatZero) THEN FloatZero
       ELSE FloatDiv(FloatMul(M0, w0), balanceDenom)

----------------------------------------------------------------------------
(* Application bridge, lights *)

\* A light is known by its index and the frame it is looked up in; a light sample by its
\* light and the point (uv) on it
RAB_EmptyLightInfo == [ index |-> -1, previousFrame |-> FALSE ]
RAB_LoadLightInfo(index, previousFrame) == [ index |-> index, previousFrame |-> previousFrame ]
RAB_EmptyLightSample == [ light |-> RAB_EmptyLightInfo, uv |-> 0 ]
RAB_SamplePolymorphicLight(lightInfo, surface, uv) == [ light |-> lightInfo, uv |-> uv ]

\* The target PDF of a light sample at a surface: light n shines with intensity n + 1 on
\* every valid surface; no light, no intensity
RAB_GetLightSampleTargetPdfForSurface(lightSample, surface) ==
    IF RAB_IsSurfaceValid(surface) /\ lightSample.light.index >= 0
    THEN FloatOfUint(lightSample.light.index + 1)
    ELSE FloatZero

\* RAB_TranslateLightIndex between the frames of a scene: the lights are the same in
\* both frames ("same"), or every light of the previous frame has been replaced
\* ("replaced": no index maps, in either direction), or light 1 alone has been removed
\* ("one removed")
RAB_TranslateLightIndex(scene, lightIndex, currentToPrevious) ==
    CASE scene.lights = "same" -> lightIndex
      [] scene.lights = "replaced" -> -1
      [] scene.lights = "one removed" -> IF lightIndex = 1 THEN -1 ELSE lightIndex

\* RAB_GetNextRandom: the k-th value drawn from the sampler state rng, a periodic sequence
RAB_GetNextRandom(rng, k) == rng[((k - 1) % Len(rng)) + 1]

----------------------------------------------------------------------------
(* DI/TemporalResampling.hlsli *)

\* round(f) for f >= 0: to the nearest whole number, halfway cases to the even one
FloatRound(f) ==
    IF (2 * (f.n % f.d) > f.d) \/ (2 * (f.n % f.d) = f.d /\ (f.n \div f.d) % 2 = 1)
    THEN (f.n \div f.d) + 1
    ELSE f.n \div f.d

\* int((random - 0.5) * radius): the conversion truncates towards zero
DISearchOffset(random, radius) ==
    IF 2 * random.n >= random.d
    THEN ((2 * random.n - random.d) * radius) \div (2 * random.d)
    ELSE -(((random.d - 2 * random.n) * radius) \div (2 * random.d))

\* Number of candidate positions the DI search loop tries
DITemporalSearchCount == 9

\* Lines 82-85: for the single temporal neighbour pairwise MIS is basic MIS
DITemporalBiasCorrection(tparams) ==
    IF tparams.biasCorrectionMode = RTXDI_BIAS_CORRECTION_PAIRWISE
    THEN [ tparams EXCEPT !.biasCorrectionMode = RTXDI_BIAS_CORRECTION_BASIC ]
    ELSE tparams

\* Line 87 (the uint product stays far below 2^32 for the history lengths used)
DIHistoryLimit(maxHistoryLength, curSample) ==
    Min(RTXDI_PackedDIReservoir_MaxM, maxHistoryLength * curSample.M)

\* Number of random values drawn before the search loop (lines 104-107)
DITemporalJitterDraws(tparams) == IF tparams.enablePermutationSampling THEN 0 ELSE 2

\* Lines 102-110: prevPos, the rounded reprojected position, jittered unless permutation
\* sampling is on (pixelPosition + motion is at least 1 in each component)
DITemporalPrevPos(pixelPosition, rng, tparams) ==
    IF tparams.enablePermutationSampling
    THEN [ x |-> pixelPosition.x + tparams.screenSpaceMotion.x,
           y |-> pixelPosition.y + tparams.screenSpaceMotion.y ]
    ELSE [ x |-> FloatRound(FloatSub(FloatAdd(FloatOfUint(pixelPosition.x + tparams.screenSpaceMotion.x),
                                              RAB_GetNextRandom(rng, 1)), Float(1, 2))),
           y |-> FloatRound(FloatSub(FloatAdd(FloatOfUint(pixelPosition.y + tparams.screenSpaceMotion.y),
                                              RAB_GetNextRandom(rng, 2)), Float(1, 2))) ]

\* The previous-frame pixel that iteration i of the search loop looks at (lines 122-135)
DITemporalSampleIdx(i, prevPos, rng, params, tparams) ==
    LET radius == IF params.activeCheckerboardField = 0 THEN 4 ELSE 8
        drawn == DITemporalJitterDraws(tparams) + 2 * (i - 1)
        offset == IF i > 0
                  THEN [ x |-> DISearchOffset(RAB_GetNextRandom(rng, drawn + 1), radius),
                         y |-> DISearchOffset(RAB_GetNextRandom(rng, drawn + 2), radius) ]
                  ELSE [ x |-> 0, y |-> 0 ]
        idx == [ x |-> prevPos.x + offset.x, y |-> prevPos.y + offset.y ]
        permuted == IF tparams.enablePermutationSampling /\ i = 0
                    THEN RTXDI_ApplyPermutationSampling(idx, tparams.uniformRandomNumber)
                    ELSE idx
    IN RTXDI_ActivateCheckerboardPixel_int2(permuted, TRUE, params.activeCheckerboardField)

\* Whether the surface found at a candidate position lets the loop reach `break`
\* (lines 138-147)
DITemporalSurfaceAccepted(surface, temporalSurface, tparams) ==
    /\ RAB_IsSurfaceValid(temporalSurface)
    /\ RTXDI_IsValidNeighbor(RAB_GetSurfaceNormal(surface), RAB_GetSurfaceNormal(temporalSurface),
                             RAB_GetSurfaceLinearDepth(surface) + tparams.screenSpaceMotion.z,
                             RAB_GetSurfaceLinearDepth(temporalSurface),
                             tparams.normalThreshold, tparams.depthThreshold)

\* The search loop from iteration i on (lines 120-154): the iteration that breaks, or
\* DITemporalSearchCount if the loop runs to its end
RECURSIVE DITemporalSearch(_, _, _, _, _, _, _)
DITemporalSearch(i, surface, prevPos, rng, params, scene, tparams) ==
    IF i >= DITemporalSearchCount THEN DITemporalSearchCount
    ELSE IF DITemporalSurfaceAccepted(surface,
                RAB_GetGBufferSurface(scene, DITemporalSampleIdx(i, prevPos, rng, params, tparams), TRUE),
                tparams)
         THEN i
         ELSE DITemporalSearch(i + 1, surface, prevPos, rng, params, scene, tparams)

\* Lines 164-168: the loaded previous-frame reservoir, clamped, moved and aged
DITemporalLoad(prevSample, historyLimit, spatialOffset) ==
    [ prevSample EXCEPT !.M = Min(prevSample.M, historyLimit),
                        !.spatialDistance = [ x |-> prevSample.spatialDistance.x + spatialOffset.x,
                                              y |-> prevSample.spatialDistance.y + spatialOffset.y ],
                        !.age = prevSample.age + 1 ]

\* Defective variant: a light that no longer exists is left in the reservoir
DITemporalTranslate_NoKill(scene, prevSample) ==
    IF RTXDI_IsValidDIReservoir(prevSample)
         /\ RAB_TranslateLightIndex(scene, RTXDI_GetDIReservoirLightIndex(prevSample), FALSE) >= 0
    THEN [ prevSample EXCEPT !.lightData =
               WithLightValidBit(RAB_TranslateLightIndex(scene,
                                     RTXDI_GetDIReservoirLightIndex(prevSample), FALSE)) ]
    ELSE prevSample

\* Lines 173-193: the light of the previous frame's sample is mapped into the current
\* frame; the reservoir is killed if the light no longer exists
DITemporalTranslate(scene, prevSample) ==
    IF RTXDI_IsValidDIReservoir(prevSample)
    THEN IF RAB_TranslateLightIndex(scene, RTXDI_GetDIReservoirLightIndex(prevSample), FALSE) < 0
         THEN [ prevSample EXCEPT !.weightSum = FloatZero, !.lightData = ToUint(0) ]
         ELSE [ prevSample EXCEPT !.lightData =
                    WithLightValidBit(RAB_TranslateLightIndex(scene,
                                          RTXDI_GetDIReservoirLightIndex(prevSample), FALSE)) ]
    ELSE prevSample

\* Lines 197-207: the previous sample's target PDF at the current surface
DITemporalWeightAtCurrent(prevSample, surface) ==
    IF RTXDI_IsValidDIReservoir(prevSample)
    THEN RAB_GetLightSampleTargetPdfForSurface(
             RAB_SamplePolymorphicLight(
                 RAB_LoadLightInfo(RTXDI_GetDIReservoirLightIndex(prevSample), FALSE),
                 surface, RTXDI_GetDIReservoirSampleUV(prevSample)),
             surface)
    ELSE FloatZero

\* Lines 89-99: the current sample is streamed into the empty reservoir
DITemporalStreamInput(curSample) ==
    RTXDI_CombineDIReservoirs(RTXDI_EmptyDIReservoir, curSample, Float(1, 2),
                              curSample.targetPdf).reservoir

\* Lines 89-94: the previous-frame index of the current sample's light
DITemporalInputLightPrevID(scene, curSample) ==
    IF RTXDI_IsValidDIReservoir(curSample)
    THEN RAB_TranslateLightIndex(scene, RTXDI_GetDIReservoirLightIndex(curSample), TRUE)
    ELSE -1

\* Lines 227-244: the selected sample's target PDF at the temporal surface
DITemporalP(state, selectedLightPrevID, temporalSurface, selectedPreviousSample, visibility, tparams) ==
    LET temporalP == RAB_GetLightSampleTargetPdfForSurface(
                         RAB_SamplePolymorphicLight(RAB_LoadLightInfo(selectedLightPrevID, TRUE),
                             temporalSurface, RTXDI_GetDIReservoirSampleUV(state)),
                         temporalSurface)
    IN IF /\ tparams.biasCorrectionMode = RTXDI_BIAS_CORRECTION_RAY_TRACED
          /\ FloatGt(temporalP, FloatZero)
          /\ (~selectedPreviousSample \/ ~tparams.enableVisibilityShortcut)
          /\ ~visibility
       THEN FloatZero
       ELSE temporalP

\* Lines 218-257: normalization
DITemporalNormalize(state, curSample, selectedLightPrevID, previousM, temporalSurface, selectedPreviousSample, visibility, tparams, temporalP) ==
    IF tparams.biasCorrectionMode >= RTXDI_BIAS_CORRECTION_BASIC
    THEN IF RTXDI_IsValidDIReservoir(state) /\ selectedLightPrevID >= 0 /\ previousM > 0
         THEN RTXDI_FinalizeResampling(state,
                  IF selectedPreviousSample THEN temporalP ELSE state.targetPdf,
                  FloatAdd(FloatMul(state.targetPdf, FloatOfUint(curSample.M)),
                           FloatMul(temporalP, FloatOfUint(previousM))))
         ELSE RTXDI_FinalizeResampling(state, state.targetPdf,
                  FloatMul(state.targetPdf, FloatOfUint(curSample.M)))
    ELSE RTXDI_FinalizeResampling(state, FloatOne, FloatOfUint(state.M))

\* Lines 218-259, given the state after line 216
DITemporalFinish(curSample, visibility, tparams, found, temporalSurface, prevSample, state, selectedPreviousSample, selectedLightPrevID, previousM, temporalSamplePixelPos) ==
    [ state |-> DITemporalNormalize(state, curSample, selectedLightPrevID, previousM,
                    temporalSurface, selectedPreviousSample, visibility, tparams,
                    IF RTXDI_IsValidDIReservoir(state) /\ selectedLightPrevID >= 0 /\ previousM > 0
                    THEN DITemporalP(state, selectedLightPrevID, temporalSurface,
                                     selectedPreviousSample, visibility, tparams)
                    ELSE FloatZero),
      found |-> found,
      foundNeighbor |-> found < DITemporalSearchCount,
      temporalSurface |-> temporalSurface,
      prevSample |-> prevSample,
      previousM |-> previousM,
      selectedPreviousSample |-> selectedPreviousSample,
      temporalSamplePixelPos |-> temporalSamplePixelPos ]

\* Lines 209-215, given the translated previous sample and the outcome of combining it
DITemporalCombined(curSample, visibility, scene, tparams, found, temporalSurface, prevPos, loaded, prevSample, combined) ==
    DITemporalFinish(curSample, visibility, tparams, found, temporalSurface, prevSample,
        combined.reservoir, combined.selectSample,
        IF combined.selectSample THEN RTXDI_GetDIReservoirLightIndex(loaded)
                                 ELSE DITemporalInputLightPrevID(scene, curSample),
        prevSample.M,
        IF RTXDI_IsValidDIReservoir(loaded) /\ loaded.age <= 1 THEN prevPos
                                                                ELSE [x |-> -1, y |-> -1])

\* Lines 159-216, given the reservoir as loaded (lines 164-168)
DITemporalReuse(surface, curSample, random, visibility, scene, tparams, found, temporalSurface, prevPos, loaded, prevSample) ==
    DITemporalCombined(curSample, visibility, scene, tparams, found, temporalSurface, prevPos,
        loaded, prevSample,
        RTXDI_CombineDIReservoirs(DITemporalStreamInput(curSample), prevSample, random,
                                  DITemporalWeightAtCurrent(prevSample, surface)))

\* The pass after the search loop has ended at iteration `found` (DITemporalSearchCount:
\* no break) on the pixel idx with the surface temporalSurface
DITemporalAfterSearch(surface, curSample, rng, visibility, scene, prevReservoir, tparams, prevPos, found, idx, temporalSurface) ==
    IF found < DITemporalSearchCount
    THEN DITemporalReuse(surface, curSample,
             RAB_GetNextRandom(rng, DITemporalJitterDraws(tparams) + 2 * found + 1),
             visibility, scene, tparams, found, temporalSurface, idx,
             DITemporalLoad(prevReservoir, DIHistoryLimit(tparams.maxHistoryLength, curSample),
                            [x |-> idx.x - prevPos.x, y |-> idx.y - prevPos.y]),
             DITemporalTranslate(scene,
                 DITemporalLoad(prevReservoir, DIHistoryLimit(tparams.maxHistoryLength, curSample),
                                [x |-> idx.x - prevPos.x, y |-> idx.y - prevPos.y])))
    ELSE DITemporalFinish(curSample, visibility, tparams, found, temporalSurface,
             RTXDI_EmptyDIReservoir, DITemporalStreamInput(curSample), FALSE,
             DITemporalInputLightPrevID(scene, curSample), 0, [x |-> -1, y |-> -1])

DITemporalSearched(surface, curSample, rng, visibility, params, scene, prevReservoir, tparams, prevPos, found) ==
    DITemporalAfterSearch(surface, curSample, rng, visibility, scene, prevReservoir, tparams,
        prevPos, found,
        DITemporalSampleIdx(Min(found, DITemporalSearchCount - 1), prevPos, rng, params, tparams),
        RAB_GetGBufferSurface(scene,
            DITemporalSampleIdx(Min(found, DITemporalSearchCount - 1), prevPos, rng, params, tparams),
            TRUE))

DITemporalFromPrevPos(surface, curSample, rng, visibility, params, scene, prevReservoir, tparams, prevPos) ==
    DITemporalSearched(surface, curSample, rng, visibility, params, scene, prevReservoir, tparams,
        prevPos, DITemporalSearch(0, surface, prevPos, rng, params, scene, tparams))

\* RTXDI_DITemporalResampling. rng holds the values RAB_GetNextRandom returns; visibility
\* is what RAB_GetTemporalConservativeVisibility returns; every cell of the previous
\* frame's reservoir buffer holds prevReservoir. Besides the returned reservoir (state)
\* the result reports the iteration at which the search loop broke, the surface it ended
\* with, the previous sample as it was combined and the out-parameter
\* temporalSamplePixelPos.
RTXDI_DITemporalResampling(pixelPosition, surface, curSample, rng, visibility, params, scene, prevReservoir, tparams) ==
    DITemporalFromPrevPos(surface, curSample, rng, visibility, params, scene, prevReservoir,
        DITemporalBiasCorrection(tparams), DITemporalPrevPos(pixelPosition, rng, tparams))

----------------------------------------------------------------------------
(* The current frame as the spatial passes read it *)

\* The view is ViewSize x ViewSize pixels; RAB_ClampSamplePositionIntoView clamps a
\* position to it
ViewSize == 8

ClampInt(v, lo, hi) == IF v < lo THEN lo ELSE IF v > hi THEN hi ELSE v

RAB_ClampSamplePositionIntoView(idx, previousFrame) ==
    [ x |-> ClampInt(idx.x, 0, ViewSize - 1), y |-> ClampInt(idx.y, 0, ViewSize - 1) ]

\* RTXDI_NEIGHBOR_OFFSETS_BUFFER: neighborOffsetMask + 1 points of the unit disk
NeighborOffsets == << [x |-> 1, y |-> 0], [x |-> 0, y |-> 1], [x |-> -1, y |-> 0], [x |-> 0, y |-> -1] >>

\* The bit that 1u << uint(i) sets: a shift uses the low five bits of its count
ShiftedBit(i) == i % 32

\* An iteration of a loop starts from the finished state of the one before: TRUE once
\* the record acc has been computed
Finished(acc) == DOMAIN acc /= {}

----------------------------------------------------------------------------
(* GI/SpatialResampling.hlsli *)

\* int2(float2(RTXDI_NEIGHBOR_OFFSETS_BUFFER[sampleIdx & mask].xy) * radius)
RTXDI_CalculateSpatialResamplingOffset(sampleIdx, radius, neighborOffsetMask) ==
    [ x |-> NeighborOffsets[UintBitAnd(sampleIdx, neighborOffsetMask) + 1].x * radius,
      y |-> NeighborOffsets[UintBitAnd(sampleIdx, neighborOffsetMask) + 1].y * radius ]

\* The pixel of neighbour i (lines 93-97). ctx gathers what the loops do not change: the
\* arguments of the pass, neighborSampleStartIdx (startIdx), the scene, the packed
\* reservoir every cell of the source buffer holds (neighborReservoir) and the answer of
\* RAB_GetConservativeVisibility (visibility).
GISpatialNeighborIdx(i, ctx) ==
    LET offset == RTXDI_CalculateSpatialResamplingOffset(ctx.startIdx + i, ctx.sparams.samplingRadius,
                                                         ctx.params.neighborOffsetMask)
    IN RTXDI_ActivateCheckerboardPixel_int2(
           RAB_ClampSamplePositionIntoView([ x |-> ctx.pixelPosition.x + offset.x,
                                             y |-> ctx.pixelPosition.y + offset.y ], FALSE),
           FALSE, ctx.params.activeCheckerboardField)

\* Lines 139-146: the neighbour's bit is recorded and its reservoir combined
GISpatialStepCombined(i, acc, targetPdf, combined) ==
    [ curReservoir |-> combined.reservoir,
      selectedTargetPdf |-> IF combined.selectSample THEN targetPdf ELSE acc.selectedTargetPdf,
      selected |-> IF combined.selectSample THEN i ELSE acc.selected,
      cachedResult |-> acc.cachedResult \cup {ShiftedBit(i)},
      recorded |-> acc.recorded \cup {i},
      streamed |-> acc.streamed \cup {i},
      visited |-> acc.visited,
      drawn |-> acc.drawn + 1 ]

\* Lines 124-146
GISpatialStepWeigh(i, acc, ctx, neighborReservoir, jacobian, targetPdf) ==
    IF ~RAB_ValidateGISampleWithJacobian(jacobian) THEN acc
    ELSE GISpatialStepCombined(i, acc, targetPdf,
             RTXDI_CombineGIReservoirs(acc.curReservoir, neighborReservoir,
                 RAB_GetNextRandom(ctx.rng, acc.drawn + 1), FloatMul(targetPdf, jacobian)))

\* Lines 101-146
GISpatialStepOn(i, acc, ctx, neighborSurface, neighborReservoir) ==
    IF \/ ~RTXDI_IsValidNeighbor(RAB_GetSurfaceNormal(ctx.surface), RAB_GetSurfaceNormal(neighborSurface),
                                 RAB_GetSurfaceLinearDepth(ctx.surface),
                                 RAB_GetSurfaceLinearDepth(neighborSurface),
                                 ctx.sparams.normalThreshold, ctx.sparams.depthThreshold)
       \/ ~RAB_AreMaterialsSimilar(RAB_GetMaterial(ctx.surface), RAB_GetMaterial(neighborSurface))
       \/ ~RTXDI_IsValidGIReservoir(neighborReservoir)
    THEN acc
    ELSE GISpatialStepWeigh(i, acc, ctx, neighborReservoir,
             RTXDI_CalculateJacobian(RAB_GetSurfaceWorldPos(ctx.surface),
                                     RAB_GetSurfaceWorldPos(neighborSurface), neighborReservoir),
             RAB_GetGISampleTargetPdfForSurface(neighborReservoir.position,
                                                neighborReservoir.radiance, ctx.surface))

\* One iteration of the first loop (lines 92-146)
GISpatialStep(i, acc, ctx) ==
    GISpatialStepOn(i, [ acc EXCEPT !.visited = Append(acc.visited, [ i |-> i, idx |-> GISpatialNeighborIdx(i, ctx) ]) ], ctx,
        RAB_GetGBufferSurface(ctx.scene, GISpatialNeighborIdx(i, ctx), FALSE),
        RTXDI_UnpackGIReservoir(ctx.neighborReservoir).res)

\* The first loop from iteration i on (line 90)
RECURSIVE GISpatialWalk(_, _, _)
GISpatialWalk(i, acc, ctx) ==
    IF i >= ctx.sparams.numSamples \/ ~Finished(acc) THEN acc
    ELSE GISpatialWalk(i + 1, GISpatialStep(i, acc, ctx), ctx)

\* Lines 180-197, given ps as first computed
GISpatialBiasStepPs(i, walked, bias, ctx, neighborReservoir, ps) ==
    [ bias EXCEPT !.pi = IF walked.selected = i THEN ps ELSE bias.pi,
                  !.piSum = FloatAdd(bias.piSum, FloatMul(ps, FloatOfUint(neighborReservoir.M))) ]

\* The pixel of neighbour i as the second loop computes it (lines 167-171)
GISpatialBiasNeighborIdx(i, ctx) ==
    LET offset == RTXDI_CalculateSpatialResamplingOffset(ctx.startIdx + i, ctx.sparams.samplingRadius,
                                                         ctx.params.neighborOffsetMask)
    IN RTXDI_ActivateCheckerboardPixel_int2(
           RAB_ClampSamplePositionIntoView([ x |-> ctx.pixelPosition.x + offset.x,
                                             y |-> ctx.pixelPosition.y + offset.y ], FALSE),
           FALSE, ctx.params.activeCheckerboardField)

\* Lines 167-197, given the surface at the pixel; bias.revisited lists the pixels the loop computed
GISpatialBiasStepAt(i, walked, bias, ctx, neighborSurface) ==
    GISpatialBiasStepPs(i, walked, bias, ctx, RTXDI_UnpackGIReservoir(ctx.neighborReservoir).res,
             IF /\ ctx.sparams.biasCorrectionMode = RTXDI_BIAS_CORRECTION_RAY_TRACED
                /\ FloatGt(RAB_GetGISampleTargetPdfForSurface(walked.curReservoir.position,
                               walked.curReservoir.radiance, neighborSurface), FloatZero)
                /\ ~ctx.visibility
             THEN FloatZero
             ELSE RAB_GetGISampleTargetPdfForSurface(walked.curReservoir.position,
                      walked.curReservoir.radiance, neighborSurface))

\* One iteration of the second loop (lines 163-197)
GISpatialBiasStep(i, walked, bias, ctx) ==
    IF ShiftedBit(i) \notin walked.cachedResult THEN bias
    ELSE GISpatialBiasStepAt(i, walked,
             [ bias EXCEPT !.revisited = Append(bias.revisited,
                                             [ i |-> i, idx |-> GISpatialBiasNeighborIdx(i, ctx) ]) ],
             ctx, RAB_GetGBufferSurface(ctx.scene, GISpatialBiasNeighborIdx(i, ctx), FALSE))

\* The second loop from iteration i on (line 161)
RECURSIVE GISpatialBiasWalk(_, _, _, _)
GISpatialBiasWalk(i, walked, bias, ctx) ==
    IF i >= ctx.sparams.numSamples \/ ~Finished(bias) THEN bias
    ELSE GISpatialBiasWalk(i + 1, walked, GISpatialBiasStep(i, walked, bias, ctx), ctx)

\* Lines 200-217
GISpatialNormalize(walked, bias, ctx) ==
    IF ctx.sparams.biasCorrectionMode >= RTXDI_BIAS_CORRECTION_BASIC
    THEN RTXDI_FinalizeGIResampling(walked.curReservoir, bias.pi,
                                    FloatMul(walked.selectedTargetPdf, bias.piSum))
    ELSE RTXDI_FinalizeGIResampling(walked.curReservoir, FloatOne,
             FloatMul(FloatOfUint(walked.curReservoir.M), walked.selectedTargetPdf))

\* Lines 149-220, given the state after the first loop
GISpatialBias(walked, ctx) ==
    IF ctx.sparams.biasCorrectionMode >= RTXDI_BIAS_CORRECTION_BASIC
    THEN GISpatialBiasWalk(0, walked,
             [ pi |-> walked.selectedTargetPdf,
               piSum |-> FloatMul(walked.selectedTargetPdf, FloatOfUint(ctx.inputReservoir.M)),
               revisited |-> << >>, drawn |-> walked.drawn ],
             ctx)
    ELSE [ pi |-> FloatZero, piSum |-> FloatZero, revisited |-> << >>, drawn |-> walked.drawn ]

GISpatialFinishWith(walked, bias, ctx) ==
    [ iterations |-> ctx.sparams.numSamples,
      selected |-> walked.selected,
      cachedResult |-> walked.cachedResult,
      recorded |-> walked.recorded,
      streamed |-> walked.streamed,
      visited |-> walked.visited,
      revisited |-> bias.revisited,
      drawnByLoops |-> << walked.drawn, bias.drawn >>,
      curReservoir |-> GISpatialNormalize(walked, bias, ctx) ]

GISpatialFinish(walked, ctx) == GISpatialFinishWith(walked, GISpatialBias(walked, ctx), ctx)

\* Lines 71-87: the state before the first loop
GISpatialStart(ctx) ==
    [ curReservoir |->
          IF RTXDI_IsValidGIReservoir(ctx.inputReservoir)
          THEN RTXDI_CombineGIReservoirs(RTXDI_EmptyGIReservoir, ctx.inputReservoir, Float(1, 2),
                   RAB_GetGISampleTargetPdfForSurface(ctx.inputReservoir.position,
                       ctx.inputReservoir.radiance, ctx.surface)).reservoir
          ELSE RTXDI_EmptyGIReservoir,
      selectedTargetPdf |->
          IF RTXDI_IsValidGIReservoir(ctx.inputReservoir)
          THEN RAB_GetGISampleTargetPdfForSurface(ctx.inputReservoir.position,
                   ctx.inputReservoir.radiance, ctx.surface)
          ELSE FloatZero,
      selected |-> -1,
      cachedResult |-> {},
      recorded |-> {},
      streamed |-> {},
      visited |-> << >>,
      drawn |-> 1 ]

GISpatialFromContext(ctx) == GISpatialFinish(GISpatialWalk(0, GISpatialStart(ctx), ctx), ctx)

\* RTXDI_GISpatialResampling. Besides the returned reservoir (curReservoir) the result
\* reports the number of iterations of the neighbour loop, the neighbours i whose bit was
\* recorded, the bits of cachedResult and the selected neighbour.
RTXDI_GISpatialResampling(pixelPosition, surface, inputReservoir, rng, visibility, params, scene, neighborReservoir, sparams) ==
    GISpatialFromContext(
        [ pixelPosition |-> pixelPosition, surface |-> surface, inputReservoir |-> inputReservoir,
          rng |-> rng, visibility |-> visibility, params |-> params, scene |-> scene,
          neighborReservoir |-> neighborReservoir, sparams |-> sparams,
          startIdx |-> FloatToInt(FloatMul(RAB_GetNextRandom(rng, 1),
                                           FloatOfUint(params.neighborOffsetMask))) ])

----------------------------------------------------------------------------
(* GI/SpatioTemporalResampling.hlsli *)

fallbackSampleCount == 1
totalTemporalSampleCount == temporalSampleCount + fallbackSampleCount

\* Line 121
GIFusedTotalSampleCount(stparams) == Min(totalTemporalSampleCount + stparams.numSpatialSamples, 32)

\* The pixel of sample i (lines 158-177), around prevPos as the loop has it. ctx gathers
\* what the loops do not change: the arguments of the pass, the two start indices, the
\* scene, the packed reservoir every cell of the source buffer holds (neighborReservoir)
\* and the answer of RAB_GetTemporalConservativeVisibility (visibility).
GIFusedSampleIdx(i, prevPos, ctx) ==
    LET temporalJitterRadius == IF ctx.params.activeCheckerboardField = 0 THEN 1 ELSE 2
        isFirstTemporalSample == i = 0
        isJitteredTemporalSample == i < temporalSampleCount
        isFallbackSample == i = temporalSampleCount
        temporalOffset == RTXDI_CalculateTemporalResamplingOffset(ctx.temporalSampleStartIdx + i,
                                                                  temporalJitterRadius)
        spatialOffset == RTXDI_CalculateSpatialResamplingOffset(ctx.neighborSampleStartIdx + i,
                             ctx.stparams.samplingRadius, ctx.params.neighborOffsetMask)
        idx == IF isFirstTemporalSample \/ isFallbackSample
               THEN IF ctx.stparams.enablePermutationSampling \/ isFallbackSample
                    THEN RTXDI_ApplyPermutationSampling(prevPos, ctx.stparams.uniformRandomNumber)
                    ELSE prevPos
               ELSE IF isJitteredTemporalSample
                    THEN [ x |-> prevPos.x + temporalOffset.x, y |-> prevPos.y + temporalOffset.y ]
                    ELSE RAB_ClampSamplePositionIntoView(
                             [ x |-> prevPos.x + spatialOffset.x, y |-> prevPos.y + spatialOffset.y ],
                             TRUE)
    IN RTXDI_ActivateCheckerboardPixel_int2(idx, TRUE, ctx.params.activeCheckerboardField)

\* Lines 233-241: the sample's bit is recorded and its reservoir combined
GIFusedStepCombined(i, acc, targetPdf, combined) ==
    [ acc EXCEPT !.curReservoir = combined.reservoir,
                 !.selectedTargetPdf = IF combined.selectSample THEN targetPdf ELSE acc.selectedTargetPdf,
                 !.selected = IF combined.selectSample THEN i ELSE acc.selected,
                 !.cachedResult = acc.cachedResult \cup {ShiftedBit(i)},
                 !.recorded = acc.recorded \cup {i},
                 !.streamed = acc.streamed \cup {i},
                 !.drawn = acc.drawn + 1 ]

\* Lines 212-241
GIFusedStepWeigh(i, acc, ctx, neighborReservoir, jacobian, targetPdf) ==
    IF ~RAB_ValidateGISampleWithJacobian(jacobian) THEN acc
    ELSE GIFusedStepCombined(i, acc, targetPdf,
             RTXDI_CombineGIReservoirs(acc.curReservoir,
                 [ neighborReservoir EXCEPT
                     !.M = Min(neighborReservoir.M, ctx.stparams.maxHistoryLength),
                     !.age = neighborReservoir.age + 1 ],
                 RAB_GetNextRandom(ctx.rng, acc.drawn + 1), FloatMul(targetPdf, jacobian)))

\* Lines 205-241: acc already has foundTemporalSurface set
GIFusedStepFound(i, acc, ctx, neighborSurface, neighborReservoir) ==
    IF neighborReservoir.age >= ctx.stparams.maxReservoirAge THEN acc
    ELSE GIFusedStepWeigh(i, acc, ctx, neighborReservoir,
             RTXDI_CalculateJacobian(RAB_GetSurfaceWorldPos(ctx.surface),
                                     RAB_GetSurfaceWorldPos(neighborSurface), neighborReservoir),
             RAB_GetGISampleTargetPdfForSurface(neighborReservoir.position,
                                                neighborReservoir.radiance, ctx.surface))

\* Lines 181-241
GIFusedStepOn(i, acc, ctx, neighborSurface, neighborReservoir) ==
    IF \/ /\ ~acc.usingFallback
          /\ ~RTXDI_IsValidNeighbor(RAB_GetSurfaceNormal(ctx.surface), RAB_GetSurfaceNormal(neighborSurface),
                 RAB_GetSurfaceLinearDepth(ctx.surface) + ctx.stparams.screenSpaceMotion.z,
                 RAB_GetSurfaceLinearDepth(neighborSurface),
                 ctx.stparams.normalThreshold, ctx.stparams.depthThreshold)
       \/ ~RAB_AreMaterialsSimilar(RAB_GetMaterial(ctx.surface), RAB_GetMaterial(neighborSurface))
       \/ ~RTXDI_IsValidGIReservoir(neighborReservoir)
    THEN acc
    ELSE GIFusedStepFound(i,
             [ acc EXCEPT !.foundTemporalSurface = TRUE,
                          !.foundAt = IF acc.foundTemporalSurface THEN acc.foundAt ELSE i ],
             ctx, neighborSurface, neighborReservoir)

\* One iteration of the first loop that gets past line 152
GIFusedStep(i, acc, ctx) ==
    GIFusedStepOn(i,
        [ acc EXCEPT !.visited = Append(acc.visited, [ i |-> i, idx |-> GIFusedSampleIdx(i, acc.prevPos, ctx) ]) ],
        ctx,
        RAB_GetGBufferSurface(ctx.scene, GIFusedSampleIdx(i, acc.prevPos, ctx), TRUE),
        RTXDI_UnpackGIReservoir(ctx.neighborReservoir).res)

\* Defective variant: a temporal surface that was found does not end the temporal phase
GIFusedSkipsToSpatial_NoJump(i, acc, ctx) ==
    i = temporalSampleCount /\ ~ctx.stparams.enableFallbackSampling

\* Lines 130-151: iteration i sets i = totalTemporalSampleCount - 1 and continues
GIFusedSkipsToSpatial(i, acc, ctx) ==
    \/ i < totalTemporalSampleCount /\ acc.foundTemporalSurface
    \/ i = temporalSampleCount /\ ~ctx.stparams.enableFallbackSampling

\* The first loop from iteration i on (lines 128-242)
RECURSIVE GIFusedWalk(_, _, _)
GIFusedWalk(i, acc, ctx) ==
    IF i >= GIFusedTotalSampleCount(ctx.stparams) \/ ~Finished(acc) THEN acc
    ELSE IF GIFusedSkipsToSpatial(i, acc, ctx)
         THEN GIFusedWalk(totalTemporalSampleCount, acc, ctx)
    ELSE GIFusedWalk(i + 1,
             GIFusedStep(i,
                 IF i = temporalSampleCount
                 THEN [ acc EXCEPT !.prevPos = ctx.pixelPosition, !.usingFallback = TRUE ]
                 ELSE acc,
                 ctx),
             ctx)

\* Lines 293-320, given ps as first computed
GIFusedBiasStepPs(i, walked, bias, ctx, neighborReservoir, ps) ==
    [ bias EXCEPT !.pi = IF walked.selected = i THEN ps ELSE bias.pi,
                  !.piSum = FloatAdd(bias.piSum,
                                FloatMul(ps, FloatOfUint(Min(neighborReservoir.M,
                                                             ctx.stparams.maxHistoryLength)))) ]

\* The pixel of sample i as the second loop computes it (lines 263-284), around prevPos
\* as the first loop left it
GIFusedBiasSampleIdx(i, prevPos, ctx) ==
    LET temporalJitterRadius == IF ctx.params.activeCheckerboardField = 0 THEN 1 ELSE 2
        isFirstTemporalSample == i = 0
        isJitteredTemporalSample == i < temporalSampleCount
        isFallbackSample == i = temporalSampleCount
        temporalOffset == RTXDI_CalculateTemporalResamplingOffset(ctx.temporalSampleStartIdx + i,
                                                                  temporalJitterRadius)
        spatialOffset == RTXDI_CalculateSpatialResamplingOffset(ctx.neighborSampleStartIdx + i,
                             ctx.stparams.samplingRadius, ctx.params.neighborOffsetMask)
        idx == IF isFirstTemporalSample \/ isFallbackSample
               THEN IF ctx.stparams.enablePermutationSampling \/ isFallbackSample
                    THEN RTXDI_ApplyPermutationSampling(prevPos, ctx.stparams.uniformRandomNumber)
                    ELSE prevPos
               ELSE IF isJitteredTemporalSample
                    THEN [ x |-> prevPos.x + temporalOffset.x, y |-> prevPos.y + temporalOffset.y ]
                    ELSE RAB_ClampSamplePositionIntoView(
                             [ x |-> prevPos.x + spatialOffset.x, y |-> prevPos.y + spatialOffset.y ],
                             TRUE)
    IN RTXDI_ActivateCheckerboardPixel_int2(idx, TRUE, ctx.params.activeCheckerboardField)

\* Lines 263-320, given the surface at the pixel; bias.revisited lists the pixels the loop computed
GIFusedBiasStepAt(i, walked, bias, ctx, neighborSurface) ==
    GIFusedBiasStepPs(i, walked, bias, ctx, RTXDI_UnpackGIReservoir(ctx.neighborReservoir).res,
             IF /\ ctx.stparams.biasCorrectionMode = RTXDI_BIAS_CORRECTION_RAY_TRACED
                /\ FloatGt(RAB_GetGISampleTargetPdfForSurface(walked.curReservoir.position,
                               walked.curReservoir.radiance, neighborSurface), FloatZero)
                /\ ~ctx.visibility
             THEN FloatZero
             ELSE RAB_GetGISampleTargetPdfForSurface(walked.curReservoir.position,
                      walked.curReservoir.radiance, neighborSurface))

\* One iteration of the second loop (lines 258-320)
GIFusedBiasStep(i, walked, bias, ctx) ==
    IF ShiftedBit(i) \notin walked.cachedResult THEN bias
    ELSE GIFusedBiasStepAt(i, walked,
             [ bias EXCEPT !.revisited = Append(bias.revisited,
                               [ i |-> i, idx |-> GIFusedBiasSampleIdx(i, walked.prevPos, ctx) ]) ],
             ctx, RAB_GetGBufferSurface(ctx.scene, GIFusedBiasSampleIdx(i, walked.prevPos, ctx), TRUE))

\* The second loop from iteration i on (line 256)
RECURSIVE GIFusedBiasWalk(_, _, _, _)
GIFusedBiasWalk(i, walked, bias, ctx) ==
    IF i >= GIFusedTotalSampleCount(ctx.stparams) \/ ~Finished(bias) THEN bias
    ELSE GIFusedBiasWalk(i + 1, walked, GIFusedBiasStep(i, walked, bias, ctx), ctx)

\* Lines 323-340
GIFusedNormalize(walked, bias, ctx) ==
    IF ctx.stparams.biasCorrectionMode >= RTXDI_BIAS_CORRECTION_BASIC
    THEN RTXDI_FinalizeGIResampling(walked.curReservoir, bias.pi,
                                    FloatMul(walked.selectedTargetPdf, bias.piSum))
    ELSE RTXDI_FinalizeGIResampling(walked.curReservoir, FloatOne,
             FloatMul(FloatOfUint(walked.curReservoir.M), walked.selectedTargetPdf))

\* Lines 244-343, given the state after the first loop
GIFusedBias(walked, ctx) ==
    IF ctx.stparams.biasCorrectionMode >= RTXDI_BIAS_CORRECTION_BASIC
    THEN GIFusedBiasWalk(0, walked,
             [ pi |-> walked.selectedTargetPdf,
               piSum |-> FloatMul(walked.selectedTargetPdf, FloatOfUint(ctx.inputReservoir.M)),
               revisited |-> << >>, drawn |-> walked.drawn ],
             ctx)
    ELSE [ pi |-> FloatZero, piSum |-> FloatZero, revisited |-> << >>, drawn |-> walked.drawn ]

GIFusedFinishWith(walked, bias, ctx) ==
    [ iterations |-> GIFusedTotalSampleCount(ctx.stparams),
      selected |-> walked.selected,
      cachedResult |-> walked.cachedResult,
      recorded |-> walked.recorded,
      streamed |-> walked.streamed,
      visited |-> walked.visited,
      revisited |-> bias.revisited,
      drawnByLoops |-> << walked.drawn, bias.drawn >>,
      foundTemporalSurface |-> walked.foundTemporalSurface,
      foundAt |-> walked.foundAt,
      usingFallback |-> walked.usingFallback,
      curReservoir |-> GIFusedNormalize(walked, bias, ctx) ]

GIFusedFinish(walked, ctx) == GIFusedFinishWith(walked, GIFusedBias(walked, ctx), ctx)

\* Lines 85-125: the state before the first loop
GIFusedStart(ctx) ==
    [ curReservoir |->
          IF RTXDI_IsValidGIReservoir(ctx.inputReservoir)
          THEN RTXDI_CombineGIReservoirs(RTXDI_EmptyGIReservoir, ctx.inputReservoir, Float(1, 2),
                   RAB_GetGISampleTargetPdfForSurface(ctx.inputReservoir.position,
                       ctx.inputReservoir.radiance, ctx.surface)).reservoir
          ELSE RTXDI_EmptyGIReservoir,
      selectedTargetPdf |->
          IF RTXDI_IsValidGIReservoir(ctx.inputReservoir)
          THEN RAB_GetGISampleTargetPdfForSurface(ctx.inputReservoir.position,
                   ctx.inputReservoir.radiance, ctx.surface)
          ELSE FloatZero,
      selected |-> -1,
      cachedResult |-> {},
      recorded |-> {},
      streamed |-> {},
      visited |-> << >>,
      drawn |-> 2,
      prevPos |-> [ x |-> ctx.pixelPosition.x + ctx.stparams.screenSpaceMotion.x,
                    y |-> ctx.pixelPosition.y + ctx.stparams.screenSpaceMotion.y ],
      usingFallback |-> FALSE,
      foundTemporalSurface |-> FALSE,
      foundAt |-> -1 ]

GIFusedFromContext(ctx) == GIFusedFinish(GIFusedWalk(0, GIFusedStart(ctx), ctx), ctx)

\* RTXDI_GISpatioTemporalResampling. Besides the returned reservoir (curReservoir) the
\* result reports the bound of the sample loop, the samples i whose bit was recorded,
\* the bits of cachedResult, the selected sample and the two flags.
RTXDI_GISpatioTemporalResampling(pixelPosition, surface, inputReservoir, rng, visibility, params, scene, neighborReservoir, stparams) ==
    GIFusedFromContext(
        [ pixelPosition |-> pixelPosition, surface |-> surface, inputReservoir |-> inputReservoir,
          rng |-> rng, visibility |-> visibility, params |-> params, scene |-> scene,
          neighborReservoir |-> neighborReservoir, stparams |-> stparams,
          temporalSampleStartIdx |-> FloatToInt(FloatMul(RAB_GetNextRandom(rng, 1), FloatOfUint(8))),
          neighborSampleStartIdx |-> FloatToInt(FloatMul(RAB_GetNextRandom(rng, 2),
                                                         FloatOfUint(params.neighborOffsetMask))) ])

----------------------------------------------------------------------------
(* DI/PairwiseStreaming.hlsli *)

\* RTXDI_TargetPdfHelper (lines 17-24)
RTXDI_TargetPdfHelper(lightReservoir, surface, priorFrame) ==
    RAB_GetLightSampleTargetPdfForSurface(
        RAB_SamplePolymorphicLight(
            RAB_LoadLightInfo(RTXDI_GetDIReservoirLightIndex(lightReservoir), priorFrame),
            surface, RTXDI_GetDIReservoirSampleUV(lightReservoir)),
        surface)

\* Lines 49-69, given the four target PDFs (each already max(0, .): none is negative)
PairwiseStreamWeighted(reservoir, random, neighborReservoir, canonicalReservor, numberOfNeighborsInStream, neighborWeightAtCanonical, canonicalWeightAtNeighbor, neighborWeightAtNeighbor, canonicalWeightAtCanonical) ==
    LET w0 == RTXDI_PairwiseMisWeight(neighborWeightAtNeighbor, neighborWeightAtCanonical,
                  FloatOfUint(neighborReservoir.M * numberOfNeighborsInStream),
                  FloatOfUint(canonicalReservor.M))
        w1 == RTXDI_PairwiseMisWeight(canonicalWeightAtNeighbor, canonicalWeightAtCanonical,
                  FloatOfUint(neighborReservoir.M * numberOfNeighborsInStream),
                  FloatOfUint(canonicalReservor.M))
        M == FloatMul(FloatOfUint(neighborReservoir.M),
                 FloatMin(RTXDI_MFactor(neighborWeightAtNeighbor, neighborWeightAtCanonical),
                          RTXDI_MFactor(canonicalWeightAtNeighbor, canonicalWeightAtCanonical)))
    IN RTXDI_InternalSimpleResample(
           [ reservoir EXCEPT !.canonicalWeight = FloatAdd(reservoir.canonicalWeight,
                                                           FloatSub(FloatOne, w1)) ],
           neighborReservoir, random, neighborWeightAtCanonical,
           FloatMul(neighborReservoir.weightSum, w0), M)

\* RTXDI_StreamNeighborWithPairwiseMIS (lines 33-70)
RTXDI_StreamNeighborWithPairwiseMIS(reservoir, random, neighborReservoir, neighborSurface, canonicalReservor, canonicalSurface, numberOfNeighborsInStream) ==
    PairwiseStreamWeighted(reservoir, random, neighborReservoir, canonicalReservor,
        numberOfNeighborsInStream,
        RTXDI_TargetPdfHelper(neighborReservoir, canonicalSurface, FALSE),
        RTXDI_TargetPdfHelper(canonicalReservor, neighborSurface, FALSE),
        RTXDI_TargetPdfHelper(neighborReservoir, neighborSurface, FALSE),
        RTXDI_TargetPdfHelper(canonicalReservor, canonicalSurface, FALSE))

\* RTXDI_StreamCanonicalWithPairwiseStep (lines 75-84)
RTXDI_StreamCanonicalWithPairwiseStep(reservoir, random, canonicalReservoir, canonicalSurface) ==
    RTXDI_InternalSimpleResample(reservoir, canonicalReservoir, random,
        canonicalReservoir.targetPdf,
        FloatMul(canonicalReservoir.weightSum, reservoir.canonicalWeight),
        FloatOfUint(canonicalReservoir.M))

----------------------------------------------------------------------------
(* DI/SpatialResampling.hlsli *)

Max(a, b) == IF a >= b THEN a ELSE b

\* int2(float2(RTXDI_NEIGHBOR_OFFSETS_BUFFER[(startIdx + i) & mask].xy) * samplingRadius)
DISpatialOffset(i, ctx) ==
    [ x |-> NeighborOffsets[UintBitAnd(ctx.startIdx + i, ctx.params.neighborOffsetMask) + 1].x
                * ctx.sparams.samplingRadius,
      y |-> NeighborOffsets[UintBitAnd(ctx.startIdx + i, ctx.params.neighborOffsetMask) + 1].y
                * ctx.sparams.samplingRadius ]

\* The pixel of neighbour i. ctx gathers what the loops do not change: the arguments of
\* the pass, startIdx, the scene, the reservoir every cell of the source buffer holds
\* (neighborReservoir) and the answer of RAB_GetConservativeVisibility (visibility).
DISpatialNeighborIdx(i, ctx) ==
    RTXDI_ActivateCheckerboardPixel_int2(
        RAB_ClampSamplePositionIntoView([ x |-> ctx.pixelPosition.x + DISpatialOffset(i, ctx).x,
                                          y |-> ctx.pixelPosition.y + DISpatialOffset(i, ctx).y ], FALSE),
        FALSE, ctx.params.activeCheckerboardField)

\* The surface tests both variants apply to a neighbour
DISpatialSurfaceAccepted(ctx, neighborSurface) ==
    /\ RAB_IsSurfaceValid(neighborSurface)
    /\ RTXDI_IsValidNeighbor(RAB_GetSurfaceNormal(ctx.centerSurface), RAB_GetSurfaceNormal(neighborSurface),
                             RAB_GetSurfaceLinearDepth(ctx.centerSurface),
                             RAB_GetSurfaceLinearDepth(neighborSurface),
                             ctx.sparams.normalThreshold, ctx.sparams.depthThreshold)
    /\ (ctx.sparams.enableMaterialSimilarityTest
            => RAB_AreMaterialsSimilar(RAB_GetMaterial(ctx.centerSurface), RAB_GetMaterial(neighborSurface)))

\* The neighbour's reservoir as loaded, moved by the offset of neighbour i
DISpatialLoad(i, ctx) ==
    [ ctx.neighborReservoir EXCEPT
        !.spatialDistance = [ x |-> ctx.neighborReservoir.spatialDistance.x + DISpatialOffset(i, ctx).x,
                              y |-> ctx.neighborReservoir.spatialDistance.y + DISpatialOffset(i, ctx).y ] ]

\* Lines 91-92
DIPairwiseSpatialSampleCount(centerSample, sparams) ==
    IF centerSample.M < sparams.targetHistoryLength
    THEN Max(sparams.numDisocclusionBoostSamples, sparams.numSamples)
    ELSE sparams.numSamples

\* Lines 125-142 of the pairwise variant, given the loaded reservoir
DIPairwiseSpatialStepLoaded(i, acc, ctx, neighborSurface, neighborSample) ==
    IF /\ RTXDI_IsValidDIReservoir(neighborSample)
       /\ ctx.sparams.discountNaiveSamples
       /\ neighborSample.M <= RTXDI_NAIVE_SAMPLING_M_THRESHOLD
    THEN acc
    ELSE IF neighborSample.M <= 0
         THEN [ acc EXCEPT !.validSpatialSamples = acc.validSpatialSamples + 1 ]
         ELSE [ acc EXCEPT
                  !.validSpatialSamples = acc.validSpatialSamples + 1,
                  !.state = RTXDI_StreamNeighborWithPairwiseMIS(acc.state,
                                RAB_GetNextRandom(ctx.rng, acc.drawn + 1), neighborSample,
                                neighborSurface, ctx.centerSample, ctx.centerSurface,
                                DIPairwiseSpatialSampleCount(ctx.centerSample, ctx.sparams)).reservoir,
                  !.streamed = acc.streamed \cup {i},
                  !.streamedSamples = acc.streamedSamples \cup {neighborSample},
                  !.drawn = acc.drawn + 1 ]

\* One iteration of the pairwise loop (lines 99-142)
DIPairwiseSpatialStep(i, acc, ctx, neighborSurface) ==
    IF ~DISpatialSurfaceAccepted(ctx, neighborSurface) THEN acc
    ELSE DIPairwiseSpatialStepLoaded(i, acc, ctx, neighborSurface, DISpatialLoad(i, ctx))

\* The pairwise loop from iteration i on (line 98)
RECURSIVE DIPairwiseSpatialWalk(_, _, _)
DIPairwiseSpatialWalk(i, acc, ctx) ==
    IF i >= DIPairwiseSpatialSampleCount(ctx.centerSample, ctx.sparams) \/ ~Finished(acc) THEN acc
    ELSE DIPairwiseSpatialWalk(i + 1,
             DIPairwiseSpatialStep(i, [ acc EXCEPT !.visited = Append(acc.visited, [ i |-> i, idx |-> DISpatialNeighborIdx(i, ctx) ]) ], ctx,
                 RAB_GetGBufferSurface(ctx.scene, DISpatialNeighborIdx(i, ctx), FALSE)),
             ctx)

\* Lines 144-159, given the state after the loop
DIPairwiseSpatialFinish(walked, ctx) ==
    [ state |->
          RTXDI_FinalizeResampling(
              RTXDI_StreamCanonicalWithPairwiseStep(
                  [ walked.state EXCEPT !.canonicalWeight =
                        IF walked.validSpatialSamples <= 0 THEN FloatOne
                        ELSE walked.state.canonicalWeight ],
                  RAB_GetNextRandom(ctx.rng, walked.drawn + 1), ctx.centerSample,
                  ctx.centerSurface).reservoir,
              FloatOne, FloatOfUint(Max(1, walked.validSpatialSamples))),
      iterations |-> DIPairwiseSpatialSampleCount(ctx.centerSample, ctx.sparams),
      selected |-> -1,
      cachedResult |-> {},
      recorded |-> {},
      streamed |-> walked.streamed,
      streamedSamples |-> walked.streamedSamples,
      validSpatialSamples |-> walked.validSpatialSamples,
      visited |-> walked.visited ]

\* RTXDI_DISpatialResamplingWithPairwiseMIS (lines 75-160)
RTXDI_DISpatialResamplingWithPairwiseMIS(ctx) ==
    DIPairwiseSpatialFinish(
        DIPairwiseSpatialWalk(0, [ state |-> RTXDI_EmptyDIReservoir, validSpatialSamples |-> 0,
                                   streamed |-> {}, streamedSamples |-> {}, visited |-> << >>,
                                   drawn |-> 1 ], ctx),
        ctx)

\* Lines 206-211: the sample count, clamped so that the neighbour mask fits a uint
DISpatialSampleCount(centerSample, sparams) ==
    Min(IF centerSample.M < sparams.targetHistoryLength
        THEN Max(sparams.numDisocclusionBoostSamples, sparams.numSamples)
        ELSE sparams.numSamples,
        32)

\* Lines 266-271, given the outcome of combining
DISpatialStepCombined(i, acc, neighborSample, candidateLight, combined) ==
    [ acc EXCEPT !.state = combined.reservoir,
                 !.streamedSamples = acc.streamedSamples \cup {neighborSample},
                 !.selected = IF combined.selectSample THEN i ELSE acc.selected,
                 !.selectedLight = IF combined.selectSample THEN candidateLight ELSE acc.selectedLight,
                 !.streamed = acc.streamed \cup {i},
                 !.drawn = acc.drawn + 1 ]

\* Lines 250-271, given the loaded reservoir; acc already has the neighbour's bit
DISpatialStepLoaded(i, acc, ctx, neighborSample) ==
    IF RTXDI_IsValidDIReservoir(neighborSample)
    THEN IF ctx.sparams.discountNaiveSamples /\ neighborSample.M <= RTXDI_NAIVE_SAMPLING_M_THRESHOLD
         THEN acc
         ELSE DISpatialStepCombined(i, acc, neighborSample,
                  RAB_LoadLightInfo(RTXDI_GetDIReservoirLightIndex(neighborSample), FALSE),
                  RTXDI_CombineDIReservoirs(acc.state, neighborSample,
                      RAB_GetNextRandom(ctx.rng, acc.drawn + 1),
                      RTXDI_TargetPdfHelper(neighborSample, ctx.centerSurface, FALSE)))
    ELSE DISpatialStepCombined(i, acc, neighborSample, RAB_EmptyLightInfo,
             RTXDI_CombineDIReservoirs(acc.state, neighborSample,
                 RAB_GetNextRandom(ctx.rng, acc.drawn + 1), FloatZero))

\* One iteration of the first loop (lines 218-272)
DISpatialStep(i, acc, ctx, neighborSurface) ==
    IF ~DISpatialSurfaceAccepted(ctx, neighborSurface) THEN acc
    ELSE DISpatialStepLoaded(i,
             [ acc EXCEPT !.cachedResult = acc.cachedResult \cup {ShiftedBit(i)},
                          !.recorded = acc.recorded \cup {i} ],
             ctx, DISpatialLoad(i, ctx))

\* The first loop from iteration i on (line 218)
RECURSIVE DISpatialWalk(_, _, _)
DISpatialWalk(i, acc, ctx) ==
    IF i >= DISpatialSampleCount(ctx.centerSample, ctx.sparams) \/ ~Finished(acc) THEN acc
    ELSE DISpatialWalk(i + 1,
             DISpatialStep(i, [ acc EXCEPT !.visited = Append(acc.visited, [ i |-> i, idx |-> DISpatialNeighborIdx(i, ctx) ]) ], ctx,
                 RAB_GetGBufferSurface(ctx.scene, DISpatialNeighborIdx(i, ctx), FALSE)),
             ctx)

\* Lines 304-330, given ps as first computed
DISpatialBiasStepPs(i, walked, bias, ctx, ps) ==
    [ bias EXCEPT !.pi = IF walked.selected = i THEN ps ELSE bias.pi,
                  !.piSum = FloatAdd(bias.piSum, FloatMul(ps, FloatOfUint(ctx.neighborReservoir.M))) ]

\* The pixel of neighbour i as the second loop computes it (lines 291-298)
DISpatialBiasNeighborIdx(i, ctx) ==
    LET sampleIdx == UintBitAnd(ctx.startIdx + i, ctx.params.neighborOffsetMask)
    IN RTXDI_ActivateCheckerboardPixel_int2(
           RAB_ClampSamplePositionIntoView(
               [ x |-> ctx.pixelPosition.x + NeighborOffsets[sampleIdx + 1].x * ctx.sparams.samplingRadius,
                 y |-> ctx.pixelPosition.y + NeighborOffsets[sampleIdx + 1].y * ctx.sparams.samplingRadius ],
               FALSE),
           FALSE, ctx.params.activeCheckerboardField)

\* Lines 304-315: ps, zeroed if the selected sample is not visible from the neighbour
DISpatialBiasPs(ctx, ps) ==
    IF /\ ctx.sparams.biasCorrectionMode = RTXDI_BIAS_CORRECTION_RAY_TRACED
       /\ FloatGt(ps, FloatZero)
       /\ ~ctx.visibility
    THEN FloatZero
    ELSE ps

\* Lines 291-330, given the surface at the pixel; bias.revisited lists the pixels the loop computed
DISpatialBiasStepAt(i, walked, bias, ctx, neighborSurface) ==
    DISpatialBiasStepPs(i, walked, bias, ctx,
             DISpatialBiasPs(ctx,
                 RAB_GetLightSampleTargetPdfForSurface(
                     RAB_SamplePolymorphicLight(walked.selectedLight, neighborSurface,
                                                RTXDI_GetDIReservoirSampleUV(walked.state)),
                     neighborSurface)))

\* One iteration of the second loop (lines 288-330)
DISpatialBiasStep(i, walked, bias, ctx) ==
    IF ShiftedBit(i) \notin walked.cachedResult THEN bias
    ELSE DISpatialBiasStepAt(i, walked,
             [ bias EXCEPT !.revisited = Append(bias.revisited,
                                             [ i |-> i, idx |-> DISpatialBiasNeighborIdx(i, ctx) ]) ],
             ctx, RAB_GetGBufferSurface(ctx.scene, DISpatialBiasNeighborIdx(i, ctx), FALSE))

\* The second loop from iteration i on (line 285)
RECURSIVE DISpatialBiasWalk(_, _, _, _)
DISpatialBiasWalk(i, walked, bias, ctx) ==
    IF i >= DISpatialSampleCount(ctx.centerSample, ctx.sparams) \/ ~Finished(bias) THEN bias
    ELSE DISpatialBiasWalk(i + 1, walked, DISpatialBiasStep(i, walked, bias, ctx), ctx)

\* Lines 276-340, given the pair the second loop ends with
DISpatialNormalize(walked, bias, ctx) ==
    IF ~RTXDI_IsValidDIReservoir(walked.state) THEN walked.state
    ELSE IF ctx.sparams.biasCorrectionMode >= RTXDI_BIAS_CORRECTION_BASIC
         THEN RTXDI_FinalizeResampling(walked.state, bias.pi, bias.piSum)
         ELSE RTXDI_FinalizeResampling(walked.state, FloatOne, FloatOfUint(walked.state.M))

\* Lines 276-342, given the state after the first loop
DISpatialBias(walked, ctx) ==
    IF /\ RTXDI_IsValidDIReservoir(walked.state)
       /\ ctx.sparams.biasCorrectionMode >= RTXDI_BIAS_CORRECTION_BASIC
    THEN DISpatialBiasWalk(0, walked,
             [ pi |-> walked.state.targetPdf,
               piSum |-> FloatMul(walked.state.targetPdf, FloatOfUint(ctx.centerSample.M)),
               revisited |-> << >>, drawn |-> walked.drawn ],
             ctx)
    ELSE [ pi |-> FloatZero, piSum |-> FloatZero, revisited |-> << >>, drawn |-> walked.drawn ]

DISpatialFinishWith(walked, bias, ctx) ==
    [ iterations |-> DISpatialSampleCount(ctx.centerSample, ctx.sparams),
      selected |-> walked.selected,
      cachedResult |-> walked.cachedResult,
      recorded |-> walked.recorded,
      streamed |-> walked.streamed,
      streamedSamples |-> walked.streamedSamples,
      visited |-> walked.visited,
      revisited |-> bias.revisited,
      drawnByLoops |-> << walked.drawn, bias.drawn >>,
      state |-> DISpatialNormalize(walked, bias, ctx) ]

DISpatialFinish(walked, ctx) == DISpatialFinishWith(walked, DISpatialBias(walked, ctx), ctx)

\* Lines 186-202: the state before the first loop
DISpatialStart(ctx) ==
    [ state |-> RTXDI_CombineDIReservoirs(RTXDI_EmptyDIReservoir, ctx.centerSample, Float(1, 2),
                                          ctx.centerSample.targetPdf).reservoir,
      selected |-> -1,
      selectedLight |-> IF RTXDI_IsValidDIReservoir(ctx.centerSample)
                        THEN RAB_LoadLightInfo(RTXDI_GetDIReservoirLightIndex(ctx.centerSample), FALSE)
                        ELSE RAB_EmptyLightInfo,
      cachedResult |-> {},
      recorded |-> {},
      streamed |-> {},
      streamedSamples |-> {},
      visited |-> << >>,
      drawn |-> 1 ]

DISpatialFromContext(ctx) ==
    IF ctx.sparams.biasCorrectionMode = RTXDI_BIAS_CORRECTION_PAIRWISE
    THEN RTXDI_DISpatialResamplingWithPairwiseMIS(ctx)
    ELSE DISpatialFinish(DISpatialWalk(0, DISpatialStart(ctx), ctx), ctx)

\* RTXDI_DISpatialResampling. Besides the returned reservoir (state) the result reports
\* the number of iterations of the neighbour loop, the neighbours i whose bit was
\* recorded, the bits of cachedResult and the selected neighbour.
RTXDI_DISpatialResampling(pixelPosition, centerSurface, centerSample, rng, visibility, params, scene, neighborReservoir, sparams) ==
    DISpatialFromContext(
        [ pixelPosition |-> pixelPosition, centerSurface |-> centerSurface,
          centerSample |-> centerSample, rng |-> rng, visibility |-> visibility, params |-> params,
          scene |-> scene, neighborReservoir |-> neighborReservoir, sparams |-> sparams,
          startIdx |-> FloatToInt(FloatMul(RAB_GetNextRandom(rng, 1),
                                           FloatOfUint(params.neighborOffsetMask))) ])

----------------------------------------------------------------------------
(* DI/SpatioTemporalResampling.hlsli *)

\* Number of candidate positions the backprojection search tries
DIFusedSearchCount == 9

\* prevPos: the rounded reprojected position, jittered by the next two random values
\* unless permutation sampling is on; `drawn` values have been drawn before
\* (pixelPosition + motion is at least 1 in each component)
DIFusedPrevPos(pixelPosition, rng, stparams, drawn) ==
    IF stparams.enablePermutationSampling
    THEN [ x |-> pixelPosition.x + stparams.screenSpaceMotion.x,
           y |-> pixelPosition.y + stparams.screenSpaceMotion.y ]
    ELSE [ x |-> FloatRound(FloatSub(FloatAdd(FloatOfUint(pixelPosition.x + stparams.screenSpaceMotion.x),
                                              RAB_GetNextRandom(rng, drawn + 1)), Float(1, 2))),
           y |-> FloatRound(FloatSub(FloatAdd(FloatOfUint(pixelPosition.y + stparams.screenSpaceMotion.y),
                                              RAB_GetNextRandom(rng, drawn + 2)), Float(1, 2))) ]

\* The previous-frame pixel that iteration i of the search loop looks at. ctx gathers
\* what the loops do not change: the arguments of the pass, the scene, the reservoir
\* every cell of the previous frame's buffer holds (prevReservoir), the answer of
\* RAB_GetTemporalConservativeVisibility (visibility), prevPos and the number of random
\* values drawn before the search loop (searchBase).
DIFusedSearchIdx(i, ctx) ==
    LET radius == IF ctx.params.activeCheckerboardField = 0 THEN 4 ELSE 8
        drawn == ctx.searchBase + 2 * (i - 1)
        offset == IF i > 0
                  THEN [ x |-> DISearchOffset(RAB_GetNextRandom(ctx.rng, drawn + 1), radius),
                         y |-> DISearchOffset(RAB_GetNextRandom(ctx.rng, drawn + 2), radius) ]
                  ELSE [ x |-> 0, y |-> 0 ]
        idx == [ x |-> ctx.prevPos.x + offset.x, y |-> ctx.prevPos.y + offset.y ]
        permuted == IF ctx.stparams.enablePermutationSampling /\ i = 0
                    THEN RTXDI_ApplyPermutationSampling(idx, ctx.stparams.uniformRandomNumber)
                    ELSE idx
    IN RTXDI_ActivateCheckerboardPixel_int2(permuted, TRUE, ctx.params.activeCheckerboardField)

\* Whether the surface found at a candidate position lets the search loop reach `break`
DIFusedSearchAccepted(ctx, temporalSurface) ==
    /\ RAB_IsSurfaceValid(temporalSurface)
    /\ RTXDI_IsValidNeighbor(RAB_GetSurfaceNormal(ctx.surface), RAB_GetSurfaceNormal(temporalSurface),
                             RAB_GetSurfaceLinearDepth(ctx.surface) + ctx.stparams.screenSpaceMotion.z,
                             RAB_GetSurfaceLinearDepth(temporalSurface),
                             ctx.stparams.normalThreshold, ctx.stparams.depthThreshold)

\* The search loop from iteration i on: the iteration that breaks, or DIFusedSearchCount
RECURSIVE DIFusedSearch(_, _)
DIFusedSearch(i, ctx) ==
    IF i >= DIFusedSearchCount THEN DIFusedSearchCount
    ELSE IF DIFusedSearchAccepted(ctx, RAB_GetGBufferSurface(ctx.scene, DIFusedSearchIdx(i, ctx), TRUE))
         THEN i
         ELSE DIFusedSearch(i + 1, ctx)

\* uint historyLimit = min(RTXDI_PackedDIReservoir_MaxM, uint(maxHistoryLength * curSample.M))
DIFusedHistoryLimit(ctx) ==
    Min(RTXDI_PackedDIReservoir_MaxM, ctx.stparams.maxHistoryLength * ctx.curSample.M)

\* The source buffer: the cell of the shaded pixel holds centralReservoir, every other
\* cell prevReservoir
DIFusedStored(ctx, idx) ==
    IF idx = ctx.pixelPosition THEN ctx.centralReservoir ELSE ctx.prevReservoir

\* A loaded previous-frame reservoir, clamped, moved and aged
DIFusedLoad(prevSample, historyLimit, spatialOffset) ==
    [ prevSample EXCEPT !.M = Min(prevSample.M, historyLimit),
                        !.spatialDistance = [ x |-> prevSample.spatialDistance.x + spatialOffset.x,
                                              y |-> prevSample.spatialDistance.y + spatialOffset.y ],
                        !.age = prevSample.age + 1 ]

\* int2(float2(RTXDI_NEIGHBOR_OFFSETS_BUFFER[(startIdx + i) & mask].xy) * samplingRadius)
DIFusedSpatialOffset(i, ctx) ==
    [ x |-> NeighborOffsets[UintBitAnd(ctx.startIdx + i, ctx.params.neighborOffsetMask) + 1].x
                * ctx.stparams.samplingRadius,
      y |-> NeighborOffsets[UintBitAnd(ctx.startIdx + i, ctx.params.neighborOffsetMask) + 1].y
                * ctx.stparams.samplingRadius ]

\* The surface tests a spatial sample has to pass
DIFusedSpatialAccepted(ctx, neighborSurface) ==
    /\ RAB_IsSurfaceValid(neighborSurface)
    /\ RTXDI_IsValidNeighbor(RAB_GetSurfaceNormal(ctx.surface), RAB_GetSurfaceNormal(neighborSurface),
                             RAB_GetSurfaceLinearDepth(ctx.surface),
                             RAB_GetSurfaceLinearDepth(neighborSurface),
                             ctx.stparams.normalThreshold, ctx.stparams.depthThreshold)
    /\ (ctx.stparams.enableMaterialSimilarityTest
            => RAB_AreMaterialsSimilar(RAB_GetMaterial(ctx.surface), RAB_GetMaterial(neighborSurface)))

\* The offset of the sample the search loop ended with (0 if it found none)
DIFusedTemporalSpatialOffset(ctx) ==
    IF ctx.foundTemporalSurface
    THEN [ x |-> ctx.centralIdx.x - ctx.prevPos.x, y |-> ctx.centralIdx.y - ctx.prevPos.y ]
    ELSE [ x |-> 0, y |-> 0 ]

\* Random values drawn by the search loop
DIFusedSearchDraws(ctx) == 2 * Min(ctx.found, DIFusedSearchCount - 1)

(* The variant with pairwise MIS (lines 95-277) *)

\* Lines 159-161
DIFusedPairwiseSampleCount(ctx) ==
    IF ~ctx.foundTemporalSurface
    THEN Max(ctx.stparams.numDisocclusionBoostSamples, ctx.stparams.numSamples)
    ELSE ctx.stparams.numSamples

\* Lines 178-182 and 243-247: the light is mapped into the current frame whether or not
\* the reservoir holds one
DIFusedPairwiseTranslate(scene, prevSample) ==
    IF RAB_TranslateLightIndex(scene, RTXDI_GetDIReservoirLightIndex(prevSample), FALSE) < 0
    THEN [ prevSample EXCEPT !.weightSum = FloatZero, !.lightData = ToUint(0) ]
    ELSE [ prevSample EXCEPT !.lightData =
               WithLightValidBit(RAB_TranslateLightIndex(scene,
                                     RTXDI_GetDIReservoirLightIndex(prevSample), FALSE)) ]

\* Lines 171-197: the state before the spatial loop, given the temporal sample as
\* translated; the next random value is startIdx
DIFusedPairwiseStart(ctx, prevSample) ==
    IF ctx.foundTemporalSurface /\ prevSample.M > 0
    THEN [ state |-> RTXDI_StreamNeighborWithPairwiseMIS(RTXDI_EmptyDIReservoir,
                         RAB_GetNextRandom(ctx.rng, ctx.searchBase + DIFusedSearchDraws(ctx) + 1),
                         prevSample, ctx.temporalSurface, ctx.curSample, ctx.surface,
                         1 + DIFusedPairwiseSampleCount(ctx)).reservoir,
           validSamples |-> 1,
           drawn |-> ctx.searchBase + DIFusedSearchDraws(ctx) + 2,
           prevSample |-> prevSample,
           temporalSamplePixelPos |-> IF prevSample.age <= 1 THEN ctx.centralIdx ELSE [x |-> -1, y |-> -1],
           streamedNeighbors |-> {},
           streamedSamples |-> {},
           visited |-> << >>,
           loads |-> {ctx.centralIdx},
           streamed |-> 1 ]
    ELSE [ state |-> RTXDI_EmptyDIReservoir,
           validSamples |-> 0,
           drawn |-> ctx.searchBase + DIFusedSearchDraws(ctx) + 1,
           prevSample |-> prevSample,
           temporalSamplePixelPos |-> [x |-> -1, y |-> -1],
           streamedNeighbors |-> {},
           streamedSamples |-> {},
           visited |-> << >>,
           loads |-> {ctx.centralIdx},
           streamed |-> 0 ]

\* Lines 243-259, given the neighbour's reservoir as translated
DIFusedPairwiseStepTranslated(i, acc, ctx, neighborSurface, stored, loaded, neighborSample) ==
    IF RAB_TranslateLightIndex(ctx.scene, RTXDI_GetDIReservoirLightIndex(loaded), FALSE) < 0 THEN acc
    ELSE IF neighborSample.M <= 0
         THEN [ acc EXCEPT !.validSamples = acc.validSamples + 1 ]
         ELSE [ acc EXCEPT
                  !.validSamples = acc.validSamples + 1,
                  !.state = RTXDI_StreamNeighborWithPairwiseMIS(acc.state,
                                RAB_GetNextRandom(ctx.rng, acc.drawn + 1), neighborSample,
                                neighborSurface, ctx.curSample, ctx.surface,
                                1 + DIFusedPairwiseSampleCount(ctx)).reservoir,
                  !.drawn = acc.drawn + 1,
                  !.streamedNeighbors = acc.streamedNeighbors \cup {i},
                  !.streamedSamples = acc.streamedSamples \cup {stored},
                  !.streamed = acc.streamed + 1 ]

\* Lines 229-259, given a neighbour surface that passed the tests and the reservoir its
\* cell holds. The test of line 232 reads the temporal sample prevSample.
DIFusedPairwiseStepOn(i, acc, ctx, neighborSurface, stored) ==
    IF /\ RTXDI_IsValidDIReservoir(acc.prevSample)
       /\ ctx.stparams.discountNaiveSamples
       /\ stored.M <= RTXDI_NAIVE_SAMPLING_M_THRESHOLD
    THEN acc
    ELSE DIFusedPairwiseStepTranslated(i, acc, ctx, neighborSurface, stored,
             DIFusedLoad(stored, DIFusedHistoryLimit(ctx), DIFusedSpatialOffset(i, ctx)),
             DIFusedPairwiseTranslate(ctx.scene,
                 DIFusedLoad(stored, DIFusedHistoryLimit(ctx), DIFusedSpatialOffset(i, ctx))))

\* Lines 207-209: the pixel of a neighbour, given the position before clamping
DIFusedPairwiseNeighborIdx(idx, ctx) ==
    RTXDI_ActivateCheckerboardPixel_int2(RAB_ClampSamplePositionIntoView(idx, FALSE),
                                         FALSE, ctx.params.activeCheckerboardField)

\* The pixel of neighbour i has been computed (lines 207-209); visited lists these pixels
DIFusedPairwiseVisited(i, acc, ctx, idx) ==
    [ acc EXCEPT !.visited = Append(acc.visited, [ i |-> i, idx |-> DIFusedPairwiseNeighborIdx(idx, ctx) ]) ]

\* The reservoir of that pixel is loaded (lines 229-230); loads holds the pixels whose
\* reservoirs the pass has loaded, the first being centralIdx (lines 171-172)
DIFusedPairwiseLoaded(i, acc, ctx, idx) ==
    [ DIFusedPairwiseVisited(i, acc, ctx, idx) EXCEPT
        !.loads = acc.loads \cup {DIFusedPairwiseNeighborIdx(idx, ctx)} ]

\* One iteration of the spatial loop (lines 198-259), given the position before clamping
DIFusedPairwiseStep(i, acc, ctx, idx) ==
    IF idx.x < 0 \/ idx.y < 0 THEN acc
    ELSE IF ~DIFusedSpatialAccepted(ctx,
                 RAB_GetGBufferSurface(ctx.scene, DIFusedPairwiseNeighborIdx(idx, ctx), TRUE))
         THEN DIFusedPairwiseVisited(i, acc, ctx, idx)
         ELSE DIFusedPairwiseStepOn(i, DIFusedPairwiseLoaded(i, acc, ctx, idx), ctx,
                  RAB_GetGBufferSurface(ctx.scene, DIFusedPairwiseNeighborIdx(idx, ctx), TRUE),
                  DIFusedStored(ctx, DIFusedPairwiseNeighborIdx(idx, ctx)))

\* The spatial loop from iteration i on (line 198)
RECURSIVE DIFusedPairwiseWalk(_, _, _)
DIFusedPairwiseWalk(i, acc, ctx) ==
    IF i >= DIFusedPairwiseSampleCount(ctx) \/ ~Finished(acc) THEN acc
    ELSE DIFusedPairwiseWalk(i + 1,
             DIFusedPairwiseStep(i, acc, ctx,
                 [ x |-> ctx.prevPos.x + DIFusedSpatialOffset(i, ctx).x,
                   y |-> ctx.prevPos.y + DIFusedSpatialOffset(i, ctx).y ]),
             ctx)

\* Lines 262-276, given the state after the spatial loop
DIFusedPairwiseFinish(walked, ctx) ==
    [ state |->
          RTXDI_FinalizeResampling(
              RTXDI_StreamCanonicalWithPairwiseStep(walked.state,
                  RAB_GetNextRandom(ctx.rng, walked.drawn + 1), ctx.curSample, ctx.surface).reservoir,
              FloatOne, FloatOfUint(Max(1, walked.validSamples))),
      iterations |-> DIFusedPairwiseSampleCount(ctx),
      selected |-> -1,
      cachedResult |-> {},
      recorded |-> {},
      foundTemporalSurface |-> ctx.foundTemporalSurface,
      temporalSamplePixelPos |-> walked.temporalSamplePixelPos,
      streamed |-> walked.streamedNeighbors,
      streamedSamples |-> walked.streamedSamples,
      validSamples |-> walked.validSamples,
      visited |-> walked.visited,
      loads |-> walked.loads,
      combined |-> walked.streamed ]

\* Lines 196-276, given the state before the spatial loop
DIFusedPairwiseFromStart(start, ctx) ==
    DIFusedPairwiseFinish(
        DIFusedPairwiseWalk(1, start,
            [ ctx EXCEPT !.startIdx =
                  FloatToInt(FloatMul(RAB_GetNextRandom(ctx.rng, start.drawn),
                                      FloatOfUint(ctx.params.neighborOffsetMask))) ]),
        ctx)

\* RTXDI_DISpatioTemporalResamplingWithPairwiseMIS after the search loop
DIFusedPairwiseSearched(ctx) ==
    DIFusedPairwiseFromStart(
        DIFusedPairwiseStart(ctx,
            DIFusedPairwiseTranslate(ctx.scene,
                DIFusedLoad(DIFusedStored(ctx, ctx.centralIdx), DIFusedHistoryLimit(ctx),
                            DIFusedTemporalSpatialOffset(ctx)))),
        ctx)

(* The variant with the neighbour mask (lines 284-574) *)

\* Lines 374-378
DIFusedSampleCount(ctx) ==
    IF ctx.foundTemporalSurface
    THEN ClampInt(ctx.stparams.numSamples, 1, 32)
    ELSE ClampInt(ctx.stparams.numDisocclusionBoostSamples, ClampInt(ctx.stparams.numSamples, 1, 32), 32)

\* Whether sample i is the one the search loop found
DIFusedIsTemporalSample(i, ctx) == i = 0 /\ ctx.foundTemporalSurface

\* The offset and the pixel of sample i (lines 393-405 and 508-518)
DIFusedSampleOffset(i, ctx) ==
    IF DIFusedIsTemporalSample(i, ctx) THEN DIFusedTemporalSpatialOffset(ctx)
    ELSE DIFusedSpatialOffset(i, ctx)

DIFusedSampleIdx(i, ctx) ==
    IF DIFusedIsTemporalSample(i, ctx)
    THEN [ x |-> ctx.prevPos.x + DIFusedSampleOffset(i, ctx).x,
           y |-> ctx.prevPos.y + DIFusedSampleOffset(i, ctx).y ]
    ELSE RTXDI_ActivateCheckerboardPixel_int2(
             RAB_ClampSamplePositionIntoView([ x |-> ctx.prevPos.x + DIFusedSampleOffset(i, ctx).x,
                                               y |-> ctx.prevPos.y + DIFusedSampleOffset(i, ctx).y ], TRUE),
             TRUE, ctx.params.activeCheckerboardField)

\* Lines 441-460: the light of the sample is mapped into the current frame; the
\* reservoir is killed if the light no longer exists
DIFusedTranslate(scene, prevSample) ==
    IF RTXDI_IsValidDIReservoir(prevSample)
    THEN IF RAB_TranslateLightIndex(scene, RTXDI_GetDIReservoirLightIndex(prevSample), FALSE) < 0
         THEN [ prevSample EXCEPT !.weightSum = FloatZero, !.lightData = ToUint(0) ]
         ELSE [ prevSample EXCEPT !.lightData =
                    WithLightValidBit(RAB_TranslateLightIndex(scene,
                                          RTXDI_GetDIReservoirLightIndex(prevSample), FALSE)) ]
    ELSE prevSample

\* Lines 479-484, given the outcome of combining
DIFusedStepCombined(i, acc, originalPrevLightID, combined) ==
    [ acc EXCEPT !.state = combined.reservoir,
                 !.selected = IF combined.selectSample THEN i ELSE acc.selected,
                 !.selectedLightPrevID = IF combined.selectSample THEN originalPrevLightID
                                         ELSE acc.selectedLightPrevID,
                 !.drawn = acc.drawn + 1,
                 !.streamed = acc.streamed \cup {i},
                 !.combined = acc.combined + 1 ]

\* Lines 436-484, given the reservoir as loaded and as translated
DIFusedStepTranslated(i, acc, ctx, loaded, prevSample) ==
    DIFusedStepCombined(i,
        IF RTXDI_IsValidDIReservoir(loaded) /\ DIFusedIsTemporalSample(i, ctx) /\ loaded.age <= 1
        THEN [ acc EXCEPT !.temporalSamplePixelPos = DIFusedSampleIdx(i, ctx) ]
        ELSE acc,
        RTXDI_GetDIReservoirLightIndex(loaded),
        RTXDI_CombineDIReservoirs(acc.state, prevSample, RAB_GetNextRandom(ctx.rng, acc.drawn + 1),
            IF RTXDI_IsValidDIReservoir(prevSample)
            THEN RTXDI_TargetPdfHelper(prevSample, ctx.surface, FALSE)
            ELSE FloatZero))

\* Lines 423-484: acc already has the sample's bit
DIFusedStepRecorded(i, acc, ctx, stored) ==
    IF /\ RTXDI_IsValidDIReservoir(stored)
       /\ ctx.stparams.discountNaiveSamples
       /\ stored.M <= RTXDI_NAIVE_SAMPLING_M_THRESHOLD
    THEN acc
    ELSE DIFusedStepTranslated(i,
             [ acc EXCEPT !.streamedSamples = acc.streamedSamples \cup {stored} ], ctx,
             DIFusedLoad(stored, DIFusedHistoryLimit(ctx), DIFusedSampleOffset(i, ctx)),
             DIFusedTranslate(ctx.scene,
                 DIFusedLoad(stored, DIFusedHistoryLimit(ctx), DIFusedSampleOffset(i, ctx))))

\* One iteration of the first loop (lines 388-485)
DIFusedStep(i, acc, ctx) ==
    IF /\ ~DIFusedIsTemporalSample(i, ctx)
       /\ ~DIFusedSpatialAccepted(ctx, RAB_GetGBufferSurface(ctx.scene, DIFusedSampleIdx(i, ctx), TRUE))
    THEN acc
    ELSE DIFusedStepRecorded(i,
             [ acc EXCEPT !.cachedResult = acc.cachedResult \cup {ShiftedBit(i)},
                          !.recorded = acc.recorded \cup {i} ],
             ctx, DIFusedStored(ctx, DIFusedSampleIdx(i, ctx)))

\* The first loop from iteration i on (line 388)
RECURSIVE DIFusedWalk(_, _, _)
DIFusedWalk(i, acc, ctx) ==
    IF i >= DIFusedSampleCount(ctx) \/ ~Finished(acc) THEN acc
    ELSE DIFusedWalk(i + 1,
             DIFusedStep(i,
                 [ acc EXCEPT !.visited = Append(acc.visited, [ i |-> i, idx |-> DIFusedSampleIdx(i, ctx) ]) ],
                 ctx),
             ctx)

\* Defective variant: the second loop takes the offset of every sample, the temporal one
\* included, from the neighbour offsets
DIFusedBiasSampleIdx_NoTemporalOffset(i, ctx) ==
    LET spatialOffset == DIFusedSpatialOffset(i, ctx)
        idx == [ x |-> ctx.prevPos.x + spatialOffset.x, y |-> ctx.prevPos.y + spatialOffset.y ]
    IN RTXDI_ActivateCheckerboardPixel_int2(RAB_ClampSamplePositionIntoView(idx, TRUE),
                                            TRUE, ctx.params.activeCheckerboardField)

\* The pixel of sample i as the second loop computes it (lines 506-518)
DIFusedBiasSampleIdx(i, ctx) ==
    LET spatialOffset == IF i = 0 /\ ctx.foundTemporalSurface THEN DIFusedTemporalSpatialOffset(ctx)
                         ELSE DIFusedSpatialOffset(i, ctx)
        idx == [ x |-> ctx.prevPos.x + spatialOffset.x, y |-> ctx.prevPos.y + spatialOffset.y ]
    IN RTXDI_ActivateCheckerboardPixel_int2(
           IF ~(i = 0 /\ ctx.foundTemporalSurface) THEN RAB_ClampSamplePositionIntoView(idx, TRUE) ELSE idx,
           TRUE, ctx.params.activeCheckerboardField)

\* Lines 527-555, given ps as first computed
DIFusedBiasStepPs(i, walked, bias, ctx, ps) ==
    LET shadowed == /\ ctx.stparams.biasCorrectionMode = RTXDI_BIAS_CORRECTION_RAY_TRACED
                    /\ FloatGt(ps, FloatZero)
                    /\ (walked.selected /= i \/ i /= 0 \/ ~ctx.stparams.enableVisibilityShortcut)
                    /\ ~ctx.visibility
    IN [ bias EXCEPT
           !.pi = IF walked.selected = i THEN (IF shadowed THEN FloatZero ELSE ps) ELSE bias.pi,
           !.piSum = FloatAdd(bias.piSum,
                         FloatMul(IF shadowed THEN FloatZero ELSE ps,
                                  FloatOfUint(Min(DIFusedStored(ctx, DIFusedBiasSampleIdx(i, ctx)).M,
                                                  DIFusedHistoryLimit(ctx))))) ]

\* Lines 506-555, given the surface at the pixel; bias.revisited lists the pixels the loop computed
DIFusedBiasStepAt(i, walked, bias, ctx, neighborSurface) ==
    DIFusedBiasStepPs(i, walked, bias, ctx,
             RAB_GetLightSampleTargetPdfForSurface(
                 RAB_SamplePolymorphicLight(RAB_LoadLightInfo(walked.selectedLightPrevID, TRUE),
                                            neighborSurface, RTXDI_GetDIReservoirSampleUV(walked.state)),
                 neighborSurface))

\* One iteration of the second loop (lines 502-555)
DIFusedBiasStep(i, walked, bias, ctx) ==
    IF ShiftedBit(i) \notin walked.cachedResult THEN bias
    ELSE DIFusedBiasStepAt(i, walked,
             [ bias EXCEPT !.revisited = Append(bias.revisited,
                                             [ i |-> i, idx |-> DIFusedBiasSampleIdx(i, ctx) ]) ],
             ctx, RAB_GetGBufferSurface(ctx.scene, DIFusedBiasSampleIdx(i, ctx), TRUE))

\* The second loop from iteration i on (line 502)
RECURSIVE DIFusedBiasWalk(_, _, _, _)
DIFusedBiasWalk(i, walked, bias, ctx) ==
    IF i >= DIFusedSampleCount(ctx) \/ ~Finished(bias) THEN bias
    ELSE DIFusedBiasWalk(i + 1, walked, DIFusedBiasStep(i, walked, bias, ctx), ctx)

\* Lines 488-570, given the pair the second loop ends with
DIFusedNormalize(walked, bias, ctx) ==
    IF ~RTXDI_IsValidDIReservoir(walked.state) THEN walked.state
    ELSE IF ctx.stparams.biasCorrectionMode >= RTXDI_BIAS_CORRECTION_BASIC
         THEN RTXDI_FinalizeResampling(walked.state, bias.pi, bias.piSum)
         ELSE RTXDI_FinalizeResampling(walked.state, FloatOne, FloatOfUint(walked.state.M))

\* Lines 488-573, given the state after the first loop
DIFusedBias(walked, ctx) ==
    IF /\ RTXDI_IsValidDIReservoir(walked.state)
       /\ ctx.stparams.biasCorrectionMode >= RTXDI_BIAS_CORRECTION_BASIC
       /\ walked.selectedLightPrevID >= 0
    THEN DIFusedBiasWalk(0, walked,
             [ pi |-> walked.state.targetPdf,
               piSum |-> FloatMul(walked.state.targetPdf, FloatOfUint(ctx.curSample.M)),
               revisited |-> << >>, drawn |-> walked.drawn ],
             ctx)
    ELSE [ pi |-> walked.state.targetPdf,
           piSum |-> FloatMul(walked.state.targetPdf, FloatOfUint(ctx.curSample.M)),
           revisited |-> << >>, drawn |-> walked.drawn ]

DIFusedFinishWith(walked, bias, ctx) ==
    [ iterations |-> DIFusedSampleCount(ctx),
      selected |-> walked.selected,
      cachedResult |-> walked.cachedResult,
      recorded |-> walked.recorded,
      streamed |-> walked.streamed,
      streamedSamples |-> walked.streamedSamples,
      visited |-> walked.visited,
      revisited |-> bias.revisited,
      drawnByLoops |-> << walked.drawn, bias.drawn >>,
      foundTemporalSurface |-> ctx.foundTemporalSurface,
      temporalSamplePixelPos |-> walked.temporalSamplePixelPos,
      combined |-> walked.combined,
      state |-> DIFusedNormalize(walked, bias, ctx) ]

DIFusedFinish(walked, ctx) == DIFusedFinishWith(walked, DIFusedBias(walked, ctx), ctx)

\* Lines 303-313: the state before the loops
DIFusedStart(ctx) ==
    [ state |-> RTXDI_CombineDIReservoirs(RTXDI_EmptyDIReservoir, ctx.curSample, Float(1, 2),
                                          ctx.curSample.targetPdf).reservoir,
      selected |-> -1,
      selectedLightPrevID |->
          IF RTXDI_IsValidDIReservoir(ctx.curSample)
          THEN RAB_TranslateLightIndex(ctx.scene, RTXDI_GetDIReservoirLightIndex(ctx.curSample), TRUE)
          ELSE -1,
      cachedResult |-> {},
      recorded |-> {},
      drawn |-> ctx.searchBase + DIFusedSearchDraws(ctx),
      temporalSamplePixelPos |-> [x |-> -1, y |-> -1],
      streamed |-> {},
      streamedSamples |-> {},
      visited |-> << >>,
      combined |-> 0 ]

\* The pass after the search loop, which ended at iteration ctx.found on the pixel
\* ctx.centralIdx with the surface ctx.temporalSurface
DIFusedSearched(ctx) ==
    IF ctx.stparams.biasCorrectionMode = RTXDI_BIAS_CORRECTION_PAIRWISE
    THEN DIFusedPairwiseSearched(ctx)
    ELSE DIFusedFinish(DIFusedWalk(0, DIFusedStart(ctx), ctx), ctx)

DIFusedAfterSearch(ctx, found) ==
    DIFusedSearched(
        [ pixelPosition |-> ctx.pixelPosition, surface |-> ctx.surface, curSample |-> ctx.curSample,
          rng |-> ctx.rng, visibility |-> ctx.visibility, params |-> ctx.params, scene |-> ctx.scene,
          prevReservoir |-> ctx.prevReservoir, centralReservoir |-> ctx.centralReservoir,
          stparams |-> ctx.stparams, startIdx |-> ctx.startIdx,
          prevPos |-> ctx.prevPos, searchBase |-> ctx.searchBase,
          found |-> found,
          foundTemporalSurface |-> found < DIFusedSearchCount,
          centralIdx |-> DIFusedSearchIdx(Min(found, DIFusedSearchCount - 1), ctx),
          temporalSurface |->
              RAB_GetGBufferSurface(ctx.scene,
                  DIFusedSearchIdx(Min(found, DIFusedSearchCount - 1), ctx), TRUE) ])

DIFusedFromContext(ctx) == DIFusedAfterSearch(ctx, DIFusedSearch(0, ctx))

\* RTXDI_DISpatioTemporalResampling. The variant with the neighbour mask draws startIdx
\* before the jitter; the pairwise variant draws it after the temporal sample. Besides
\* the returned reservoir (state) the result reports the bound of the sample loop, the
\* samples i whose bit was recorded, the bits of cachedResult, the selected sample,
\* whether the search found a surface, the out-parameter temporalSamplePixelPos and the
\* number of previous-frame reservoirs that were combined.
RTXDI_DISpatioTemporalResampling(pixelPosition, surface, curSample, rng, visibility, params, scene, prevReservoir, centralReservoir, stparams) ==
    LET startDraws == IF stparams.biasCorrectionMode = RTXDI_BIAS_CORRECTION_PAIRWISE THEN 0 ELSE 1
    IN DIFusedFromContext(
           [ pixelPosition |-> pixelPosition, surface |-> surface, curSample |-> curSample,
             rng |-> rng, visibility |-> visibility, params |-> params, scene |-> scene,
             prevReservoir |-> prevReservoir, centralReservoir |-> centralReservoir,
             stparams |-> stparams,
             startIdx |-> FloatToInt(FloatMul(RAB_GetNextRandom(rng, 1),
                                              FloatOfUint(params.neighborOffsetMask))),
             prevPos |-> DIFusedPrevPos(pixelPosition, rng, stparams, startDraws),
             searchBase |-> startDraws + (IF stparams.enablePermutationSampling THEN 0 ELSE 2) ])

----------------------------------------------------------------------------
(* Invocations of the six resampling passes, each at one pixel of one frame *)

\* Largest sample count a caller passes
MaxSamples == 33

SampleCounts == {1, MaxSamples}

\* The weights of pairwise MIS are kept as exact fractions, which stay short for a few
\* neighbours
PairwiseSampleCounts == {1, 3}

\* The scene: the G-buffer and whether the lights of the previous frame still exist
ResamplingScenes ==
    [ origin : {ShadedPixel}, region : {"center", "east"}, inside : SurfaceKinds,
      outside : {CurrentSurface, RAB_EmptySurface}, lights : {"same", "replaced"} ]

RuntimeParameters == [ activeCheckerboardField : {0}, neighborOffsetMask : {Len(NeighborOffsets) - 1} ]

RngStates == { << FloatZero, Float(3, 4) >>, << Float(3, 4), FloatZero >> }

\* The light reservoirs a pass is given for the pixel: none, or light 0 out of M
\* candidates
DIInitialSamples ==
    {RTXDI_EmptyDIReservoir}
        \cup { [ RTXDI_EmptyDIReservoir EXCEPT !.lightData = WithLightValidBit(0),
                                               !.targetPdf = FloatOne,
                                               !.weightSum = FloatOne,
                                               !.M = m ] : m \in {1, 2} }

DISingleInitialSamples == { r \in DIInitialSamples : r.M <= 1 }

\* The light reservoirs a pass can find in a reservoir buffer: empty, or holding light 1
DIHistoryMs == {1, 30, RTXDI_PackedDIReservoir_MaxM}

DIHistory ==
    {RTXDI_EmptyDIReservoir}
        \cup { [ RTXDI_EmptyDIReservoir EXCEPT !.lightData = WithLightValidBit(1),
                                               !.weightSum = FloatOne,
                                               !.M = m,
                                               !.age = IF m = 1 THEN 0 ELSE 1 ] : m \in DIHistoryMs }

\* The light reservoirs the passes that walk many neighbours find
DINeighbors == { r \in DIHistory : r.M < RTXDI_PackedDIReservoir_MaxM }

DITemporalResamplingParameters ==
    [ screenSpaceMotion : {[x |-> 0, y |-> 0, z |-> 0]},
      maxHistoryLength : {20},
      biasCorrectionMode : BiasCorrectionModes,
      depthThreshold : {Float(1, 10)},
      normalThreshold : {Float(1, 2)},
      enableVisibilityShortcut : BOOLEAN,
      enablePermutationSampling : BOOLEAN,
      uniformRandomNumber : {6} ]

DISpatialResamplingParameters ==
    { s \in [ numSamples : SampleCounts \cup PairwiseSampleCounts,
              numDisocclusionBoostSamples : {0, MaxSamples},
              targetHistoryLength : {1},
              biasCorrectionMode : BiasCorrectionModes,
              samplingRadius : {1},
              depthThreshold : {Float(1, 10)},
              normalThreshold : {Float(1, 2)},
              enableMaterialSimilarityTest : BOOLEAN,
              discountNaiveSamples : BOOLEAN ] :
          /\ s.enableMaterialSimilarityTest /= s.discountNaiveSamples
          /\ IF s.biasCorrectionMode = RTXDI_BIAS_CORRECTION_PAIRWISE
             THEN s.numSamples \in PairwiseSampleCounts /\ s.numDisocclusionBoostSamples = 0
             ELSE s.numSamples \in SampleCounts }

DISpatioTemporalResamplingParameters ==
    { s \in [ screenSpaceMotion : {[x |-> 0, y |-> 0, z |-> 0]},
              maxHistoryLength : {20},
              biasCorrectionMode : BiasCorrectionModes,
              depthThreshold : {Float(1, 10)},
              normalThreshold : {Float(1, 2)},
              numSamples : SampleCounts \cup PairwiseSampleCounts,
              numDisocclusionBoostSamples : {0, MaxSamples},
              samplingRadius : {1},
              enableVisibilityShortcut : {FALSE},
              enablePermutationSampling : {FALSE},
              enableMaterialSimilarityTest : {TRUE},
              discountNaiveSamples : BOOLEAN,
              uniformRandomNumber : {6} ] :
          IF s.biasCorrectionMode = RTXDI_BIAS_CORRECTION_PAIRWISE
          THEN s.numSamples \in PairwiseSampleCounts /\ s.numDisocclusionBoostSamples = 0
          ELSE s.numSamples \in SampleCounts }

GISpatialResamplingParameters ==
    [ numSamples : SampleCounts,
      biasCorrectionMode : BiasCorrectionModes \ {RTXDI_BIAS_CORRECTION_PAIRWISE},
      samplingRadius : {1},
      depthThreshold : {Float(1, 10)},
      normalThreshold : {Float(1, 2)} ]

GISpatioTemporalResamplingParameters ==
    [ screenSpaceMotion : {[x |-> 0, y |-> 0, z |-> 0]},
      maxHistoryLength : {20},
      biasCorrectionMode : BiasCorrectionModes \ {RTXDI_BIAS_CORRECTION_PAIRWISE},
      depthThreshold : {Float(1, 10)},
      normalThreshold : {Float(1, 2)},
      maxReservoirAge : {RTXDI_PackedGIReservoir_MaxAge},
      numSpatialSamples : SampleCounts,
      samplingRadius : {1},
      enablePermutationSampling : {FALSE},
      enableFallbackSampling : BOOLEAN,
      uniformRandomNumber : {6} ]

GIResamplingTemporalParameters ==
    { t \in GITemporalResamplingParameters :
          /\ t.biasCorrectionMode /= RTXDI_BIAS_CORRECTION_PAIRWISE
          /\ t.maxReservoirAge = RTXDI_PackedGIReservoir_MaxAge }

GIResamplingInitialSamples == { RTXDI_EmptyGIReservoir, RTXDI_MakeGIReservoir(0, 0, 1, FloatOne) }

GIResamplingHistory == GIHistory({0}, {0})

GIResamplingScenes == { sc \in ResamplingScenes : sc.lights = "same" }

\* For the temporal search: also scenes that differ to the west, where the fallback
\* position of the shaded pixel lies
GITemporalScenes ==
    GIResamplingScenes
        \cup [ origin : {ShadedPixel}, region : {"west"}, inside : SurfaceKinds,
               outside : {CurrentSurface, RAB_EmptySurface}, lights : {"same"} ]

\* For the passes that walk many neighbours: the neighbour to the east differs
SpatialScenes == { sc \in ResamplingScenes : sc.region = "east" }

\* A pixel that RAB_IsSurfaceValid rejects although its normal, depth and material are
\* those of the shaded surface
InvalidSimilarSurface == [ CurrentSurface EXCEPT !.valid = FALSE ]

\* For the two spatial passes: also such pixels to the east
SpatialNeighborScenes ==
    (GIResamplingScenes \cap SpatialScenes)
        \cup [ origin : {ShadedPixel}, region : {"east"}, inside : {InvalidSimilarSurface},
               outside : {CurrentSurface, RAB_EmptySurface}, lights : {"same"} ]

ResamplingCalls ==
    [ fn : {"GITemporalResampling"}, pixelPosition : {ShadedPixel}, params : RuntimeParameters,
      tparams : GIResamplingTemporalParameters, inputReservoir : GIResamplingInitialSamples,
      scene : GITemporalScenes, rng : RngStates, visibility : BOOLEAN,
      prevReservoir : GIResamplingHistory ]
    \cup
    [ fn : {"GISpatialResampling"}, pixelPosition : {ShadedPixel}, params : RuntimeParameters,
      tparams : GISpatialResamplingParameters, inputReservoir : GIResamplingInitialSamples,
      scene : SpatialNeighborScenes, rng : RngStates, visibility : BOOLEAN,
      prevReservoir : GIResamplingHistory ]
    \cup
    [ fn : {"GISpatioTemporalResampling"}, pixelPosition : {ShadedPixel}, params : RuntimeParameters,
      tparams : GISpatioTemporalResamplingParameters, inputReservoir : GIResamplingInitialSamples,
      scene : GITemporalScenes, rng : RngStates, visibility : BOOLEAN,
      prevReservoir : GIResamplingHistory ]
    \cup
    [ fn : {"DITemporalResampling"}, pixelPosition : {ShadedPixel}, params : RuntimeParameters,
      tparams : DITemporalResamplingParameters, inputReservoir : DIInitialSamples,
      scene : ResamplingScenes, rng : RngStates, visibility : BOOLEAN,
      prevReservoir : DIHistory ]
    \cup
    [ fn : {"DISpatialResampling"}, pixelPosition : {ShadedPixel}, params : RuntimeParameters,
      tparams : DISpatialResamplingParameters, inputReservoir : DISingleInitialSamples,
      scene : SpatialNeighborScenes, rng : RngStates, visibility : BOOLEAN,
      prevReservoir : DINeighbors ]
    \cup
    [ fn : {"DISpatioTemporalResampling"}, pixelPosition : {ShadedPixel}, params : RuntimeParameters,
      tparams : DISpatioTemporalResamplingParameters, inputReservoir : DISingleInitialSamples,
      scene : SpatialScenes, rng : RngStates, visibility : BOOLEAN,
      prevReservoir : DINeighbors ]

\* DI fused resampling where the cell of the shaded pixel holds light 1, which has been
\* removed, and the cells around it hold light 0 out of one candidate
DIFusedMixedCalls ==
    [ fn : {"DISpatioTemporalResampling"}, pixelPosition : {ShadedPixel}, params : RuntimeParameters,
      tparams : { s \in DISpatioTemporalResamplingParameters :
                      s.numSamples \in PairwiseSampleCounts /\ s.numDisocclusionBoostSamples = 0 },
      inputReservoir : DISingleInitialSamples,
      scene : [ origin : {ShadedPixel}, region : {"east"}, inside : {CurrentSurface},
                outside : {CurrentSurface}, lights : {"one removed"} ],
      rng : RngStates, visibility : BOOLEAN,
      prevReservoir : { [ r EXCEPT !.lightData = WithLightValidBit(0) ] : r \in { h \in DINeighbors : h.M = 1 } },
      centralReservoir : { h \in DINeighbors : h.M = 1 } ]

\* The reservoir in the cell of the shaded pixel: that of every other cell unless the
\* call says otherwise
CentralReservoirOf(c) ==
    IF "centralReservoir" \in DOMAIN c THEN c.centralReservoir ELSE c.prevReservoir

\* A pass is invoked once, for one pixel. The field tparams holds the parameters of the
\* pass, prevReservoir the reservoir every cell of its source buffer holds.
ResamplingInit ==
    /\ driven = "none"
    /\ di = ReSTIRDIContext_ctor([ CheckerboardSamplingMode |-> "Off",
                                    NeighborOffsetCount |-> NeighborOffsetCount ])
    /\ gi = ReSTIRGIContext_ctor([ CheckerboardSamplingMode |-> "Off" ])
    /\ lastCall = "ctor"
    /\ before = di
    /\ frames = << >>
    /\ call \in ResamplingCalls \cup DIFusedMixedCalls
    \* the visibility ray is traced only in the ray-traced mode
    /\ call.tparams.biasCorrectionMode /= RTXDI_BIAS_CORRECTION_RAY_TRACED => call.visibility
    /\ ret = << >>

GITemporalResamplingPass ==
    /\ call.fn = "GITemporalResampling"
    /\ Len(ret) = 0
    /\ ret' = << RTXDI_GITemporalResampling(call.pixelPosition, CurrentSurface,
                     call.inputReservoir, call.rng, call.visibility, call.params, call.scene,
                     call.prevReservoir, call.tparams) >>
    /\ UNCHANGED <<ctxVars, call>>

GISpatialResamplingPass ==
    /\ call.fn = "GISpatialResampling"
    /\ Len(ret) = 0
    /\ ret' = << RTXDI_GISpatialResampling(call.pixelPosition, CurrentSurface,
                     call.inputReservoir, call.rng, call.visibility, call.params, call.scene,
                     call.prevReservoir, call.tparams) >>
    /\ UNCHANGED <<ctxVars, call>>

GISpatioTemporalResamplingPass ==
    /\ call.fn = "GISpatioTemporalResampling"
    /\ Len(ret) = 0
    /\ ret' = << RTXDI_GISpatioTemporalResampling(call.pixelPosition, CurrentSurface,
                     call.inputReservoir, call.rng, call.visibility, call.params, call.scene,
                     call.prevReservoir, call.tparams) >>
    /\ UNCHANGED <<ctxVars, call>>

DITemporalResamplingPass ==
    /\ call.fn = "DITemporalResampling"
    /\ Len(ret) = 0
    /\ ret' = << RTXDI_DITemporalResampling(call.pixelPosition, CurrentSurface,
                     call.inputReservoir, call.rng, call.visibility, call.params, call.scene,
                     call.prevReservoir, call.tparams) >>
    /\ UNCHANGED <<ctxVars, call>>

DISpatialResamplingPass ==
    /\ call.fn = "DISpatialResampling"
    /\ Len(ret) = 0
    /\ ret' = << RTXDI_DISpatialResampling(call.pixelPosition, CurrentSurface,
                     call.inputReservoir, call.rng, call.visibility, call.params, call.scene,
                     call.prevReservoir, call.tparams) >>
    /\ UNCHANGED <<ctxVars, call>>

DISpatioTemporalResamplingPass ==
    /\ call.fn = "DISpatioTemporalResampling"
    /\ Len(ret) = 0
    /\ ret' = << RTXDI_DISpatioTemporalResampling(call.pixelPosition, CurrentSurface,
                     call.inputReservoir, call.rng, call.visibility, call.params, call.scene,
                     call.prevReservoir, CentralReservoirOf(call), call.tparams) >>
    /\ UNCHANGED <<ctxVars, call>>

ResamplingNext ==
    \/ GITemporalResamplingPass
    \/ GISpatialResamplingPass
    \/ GISpatioTemporalResamplingPass
    \/ DITemporalResamplingPass
    \/ DISpatialResamplingPass
    \/ DISpatioTemporalResamplingPass

SpecResampling == ResamplingInit /\ [][ResamplingNext]_vars

----------------------------------------------------------------------------
(* Claims about the resampling passes *)

GIPasses == {"GITemporalResampling", "GISpatialResampling", "GISpatioTemporalResampling"}
DIPasses == {"DITemporalResampling", "DISpatialResampling", "DISpatioTemporalResampling"}

\* The pass has run
PassDone == call.fn \in GIPasses \cup DIPasses /\ Len(ret) = 1

\* The reservoir the pass returns
OutputReservoir == IF call.fn \in GIPasses THEN ret[1].curReservoir ELSE ret[1].state

OutputIsValid ==
    IF call.fn \in GIPasses THEN RTXDI_IsValidGIReservoir(OutputReservoir)
                            ELSE RTXDI_IsValidDIReservoir(OutputReservoir)

\* The reservoir the pass finds in its source buffer
SourceReservoir ==
    IF call.fn \in GIPasses THEN RTXDI_UnpackGIReservoir(call.prevReservoir).res ELSE call.prevReservoir

\* Scenario S1: the input reservoir is invalid with M = 0, and so is every reservoir of
\* the source buffer
S1_EmptyInput ==
    /\ call.inputReservoir.M = 0
    /\ SourceReservoir.M = 0
    /\ IF call.fn \in GIPasses
       THEN ~RTXDI_IsValidGIReservoir(call.inputReservoir) /\ ~RTXDI_IsValidGIReservoir(SourceReservoir)
       ELSE ~RTXDI_IsValidDIReservoir(call.inputReservoir) /\ ~RTXDI_IsValidDIReservoir(SourceReservoir)

S5_LightRemoved ==
    /\ PassDone
    /\ call.fn = "DITemporalResampling"
    /\ ret[1].foundNeighbor
    /\ RTXDI_IsValidDIReservoir(call.prevReservoir)
    /\ RAB_TranslateLightIndex(call.scene, RTXDI_GetDIReservoirLightIndex(call.prevReservoir), FALSE) < 0

\* C14 as stated: in scenario S5 the output reservoir has the valid bit of lightData
\* clear and weightSum = 0.
C14_Original_OutputKilled ==
    S5_LightRemoved =>
        /\ OutputReservoir.lightData.hi < RTXDI_DIReservoir_LightValidBit.hi
        /\ OutputReservoir.weightSum = FloatZero

\* C14 (amended): in scenario S5 it is the previous-frame reservoir that is killed
\* (lightData = 0, weightSum = 0) before it is combined. The output then either is
\* invalid with weightSum = 0, which is always so when the input reservoir is invalid,
\* or holds the light of the valid input reservoir.
C14_PreviousSampleKilled ==
    S5_LightRemoved =>
        /\ ret[1].prevSample.lightData = ToUint(0)
        /\ ret[1].prevSample.weightSum = FloatZero
        /\ OutputIsValid =>
               /\ RTXDI_IsValidDIReservoir(call.inputReservoir)
               /\ OutputReservoir.lightData = call.inputReservoir.lightData
               /\ ~ret[1].selectedPreviousSample
        /\ ~OutputIsValid => OutputReservoir.weightSum = FloatZero

\* S5 with a valid input reservoir: the output keeps the input's light, with a weight
C14_Witness ==
    /\ S5_LightRemoved
    /\ RTXDI_IsValidDIReservoir(call.inputReservoir)
    /\ ret[1].prevSample.lightData = ToUint(0)
    /\ ret[1].previousM > 0
    /\ OutputIsValid
    /\ OutputReservoir.weightSum /= FloatZero

TemporalPasses == {"GITemporalResampling", "DITemporalResampling"}

\* A temporal pass has combined a previous-frame reservoir
TemporalCombined ==
    /\ PassDone
    /\ call.fn \in TemporalPasses
    /\ IF call.fn = "GITemporalResampling" THEN ret[1].foundTemporalReservoir
                                           ELSE ret[1].foundNeighbor

\* M of the previous-frame reservoir as it was combined
CombinedPreviousM ==
    IF call.fn = "GITemporalResampling" THEN ret[1].temporalReservoir.M ELSE ret[1].prevSample.M

\* C19 as stated: in DI and GI temporal resampling the previous-frame reservoir's M is
\* clamped to at most maxHistoryLength before it is combined, so the output's M is at
\* most inputReservoir.M + maxHistoryLength.
C19_Original_HistoryClampedToMaxHistoryLength ==
    /\ TemporalCombined => CombinedPreviousM <= call.tparams.maxHistoryLength
    /\ (PassDone /\ call.fn \in TemporalPasses) =>
           OutputReservoir.M <= call.inputReservoir.M + call.tparams.maxHistoryLength

\* The limit each temporal pass clamps the previous-frame M to
HistoryLimitOfPass ==
    IF call.fn = "GITemporalResampling"
    THEN call.tparams.maxHistoryLength
    ELSE Min(RTXDI_PackedDIReservoir_MaxM, call.tparams.maxHistoryLength * call.inputReservoir.M)

\* C19 (amended): GI temporal resampling clamps the previous-frame M to maxHistoryLength;
\* DI temporal resampling clamps it to min(8191, maxHistoryLength * curSample.M). The
\* output's M is at most inputReservoir.M plus that limit.
C19_HistoryClampedToPassLimit ==
    /\ TemporalCombined => CombinedPreviousM <= HistoryLimitOfPass
    /\ (PassDone /\ call.fn \in TemporalPasses) =>
           OutputReservoir.M <= call.inputReservoir.M + HistoryLimitOfPass

\* DI temporal resampling with a two-candidate input: the previous M of 8191 is combined
\* as 40 = 20 * 2, and the output's M is 42
C19_Witness ==
    /\ TemporalCombined
    /\ call.fn = "DITemporalResampling"
    /\ call.inputReservoir.M = 2
    /\ call.prevReservoir.M = RTXDI_PackedDIReservoir_MaxM
    /\ CombinedPreviousM = HistoryLimitOfPass
    /\ CombinedPreviousM > call.tparams.maxHistoryLength
    /\ OutputReservoir.M = call.inputReservoir.M + HistoryLimitOfPass

\* Number of candidate positions the search loop of the temporal pass tries
TemporalCandidateCount ==
    IF call.fn = "GITemporalResampling"
    THEN temporalSampleCount + (IF call.tparams.enableFallbackSampling THEN 1 ELSE 0)
    ELSE DITemporalSearchCount

\* The previous-frame G-buffer surface at candidate position j
TemporalCandidateSurface(j) ==
    RAB_GetGBufferSurface(call.scene,
        IF call.fn = "GITemporalResampling"
        THEN GITemporalSampleIdx(j, call.pixelPosition, call.rng, call.params, call.tparams)
        ELSE DITemporalSampleIdx(j, DITemporalPrevPos(call.pixelPosition, call.rng, call.tparams),
                                 call.rng, call.params, call.tparams),
        TRUE)

\* The surface passes the normal and depth thresholds against the current surface
PassesThresholds(temporalSurface) ==
    RTXDI_IsValidNeighbor(RAB_GetSurfaceNormal(CurrentSurface), RAB_GetSurfaceNormal(temporalSurface),
                          RAB_GetSurfaceLinearDepth(CurrentSurface) + call.tparams.screenSpaceMotion.z,
                          RAB_GetSurfaceLinearDepth(temporalSurface),
                          call.tparams.normalThreshold, call.tparams.depthThreshold)

MaterialMatches(temporalSurface) ==
    RAB_AreMaterialsSimilar(RAB_GetMaterial(CurrentSurface), RAB_GetMaterial(temporalSurface))

\* The search loop of the temporal pass stopped at a candidate
TemporalMatchFound ==
    /\ PassDone
    /\ call.fn \in TemporalPasses
    /\ ret[1].found < TemporalCandidateCount

\* At most one previous-frame reservoir is combined: the output's M is the input's M,
\* plus the M of the one combined previous-frame reservoir if there is one
AtMostOneCombined ==
    (PassDone /\ call.fn \in TemporalPasses) =>
        OutputReservoir.M = call.inputReservoir.M + (IF TemporalCombined THEN CombinedPreviousM ELSE 0)

\* C18 as stated: in DI and GI temporal resampling a candidate is accepted only if its
\* surface is valid, passes the normal and depth thresholds and has a material similar
\* to the current one; the search stops at the first accepted candidate and at most
\* one previous-frame reservoir is combined.
C18_Original_AcceptedOnlyIfAllTestsPass ==
    /\ TemporalMatchFound =>
           /\ RAB_IsSurfaceValid(ret[1].temporalSurface)
           /\ PassesThresholds(ret[1].temporalSurface)
           /\ MaterialMatches(ret[1].temporalSurface)
    /\ AtMostOneCombined

\* The tests candidate j has to pass in each pass
TemporalCandidateAccepted(j) ==
    /\ RAB_IsSurfaceValid(TemporalCandidateSurface(j))
    /\ IF call.fn = "GITemporalResampling"
       THEN /\ j = temporalSampleCount \/ PassesThresholds(TemporalCandidateSurface(j))
            /\ MaterialMatches(TemporalCandidateSurface(j))
            /\ RTXDI_IsValidGIReservoir(SourceReservoir)
       ELSE PassesThresholds(TemporalCandidateSurface(j))

\* C18 (amended): a candidate is accepted if and only if its surface is valid and, in DI,
\* it passes the normal and depth thresholds (no material test); in GI, it passes the
\* thresholds unless it is the fallback candidate, its material is similar and the
\* reservoir stored there is valid. The search stops at the first accepted candidate, and
\* at most one previous-frame reservoir is combined.
C18_AcceptedByThePassTests ==
    /\ (PassDone /\ call.fn \in TemporalPasses) =>
           /\ \A j \in 0 .. TemporalCandidateCount - 1 :
                  j < ret[1].found => ~TemporalCandidateAccepted(j)
           /\ ret[1].found <= TemporalCandidateCount
    /\ TemporalMatchFound =>
           /\ TemporalCandidateAccepted(ret[1].found)
           /\ ret[1].temporalSurface = TemporalCandidateSurface(ret[1].found)
    /\ AtMostOneCombined

\* GI temporal resampling takes the fallback candidate although its normal differs from
\* the current surface's, and combines the reservoir stored there
C18_Witness ==
    /\ TemporalMatchFound
    /\ call.fn = "GITemporalResampling"
    /\ ret[1].found = temporalSampleCount
    /\ ~PassesThresholds(ret[1].temporalSurface)
    /\ MaterialMatches(ret[1].temporalSurface)
    /\ TemporalCombined
    /\ OutputReservoir.M = call.inputReservoir.M + CombinedPreviousM

\* A pass that records neighbour validity in cachedResult has run: GI spatial, GI fused,
\* and DI spatial and DI fused unless they go the pairwise way, which keeps no mask
MaskPassDone ==
    /\ PassDone
    /\ call.fn \in {"GISpatialResampling", "GISpatioTemporalResampling",
                    "DISpatialResampling", "DISpatioTemporalResampling"}
    /\ call.fn \in DIPasses => call.tparams.biasCorrectionMode /= RTXDI_BIAS_CORRECTION_PAIRWISE

\* Width of the cachedResult mask
CachedResultBits == 32

\* C20 as stated: in every pass that records neighbour validity in cachedResult the
\* number of loop iterations is at most 32 whatever sample counts the caller passes, so
\* every recorded index i is below 32 and two different neighbours never share a bit.
C20_Original_IterationsClampedTo32 ==
    MaskPassDone =>
        /\ ret[1].iterations <= CachedResultBits
        /\ \A i \in ret[1].recorded : i < CachedResultBits
        /\ \A i, j \in ret[1].recorded : i /= j => ShiftedBit(i) /= ShiftedBit(j)


----------------------------------------------------------------------------
(* Claims about the neighbours of the spatial passes *)

\* A spatial pass with the neighbour mask (every mode but pairwise MIS) has run
SpatialMaskPassDone ==
    /\ PassDone
    /\ call.fn \in {"GISpatialResampling", "DISpatialResampling"}
    /\ call.tparams.biasCorrectionMode /= RTXDI_BIAS_CORRECTION_PAIRWISE

\* The G-buffer surface of the k-th neighbour the first loop of the pass looked at
NeighborSurfaceOf(k) == RAB_GetGBufferSurface(call.scene, ret[1].visited[k].idx, FALSE)

SourceReservoirIsValid ==
    IF call.fn \in GIPasses THEN RTXDI_IsValidGIReservoir(SourceReservoir)
                            ELSE RTXDI_IsValidDIReservoir(SourceReservoir)

\* Neighbour i left the output reservoir alone: it was not combined, is not the selected
\* sample and its bit of cachedResult was not recorded
NeighborSkipped(i) ==
    /\ i \notin ret[1].streamed
    /\ i \notin ret[1].recorded
    /\ ret[1].selected /= i

\* C21 as stated: in spatial resampling (DI and GI) a neighbour whose G-buffer surface
\* is invalid, or whose loaded reservoir is invalid, is skipped: it is not combined into
\* the output reservoir, is not selected and its bit of cachedResult is not set,
\* whatever the similarity tests say about it.
C21_Original_InvalidNeighborSkipped ==
    SpatialMaskPassDone =>
        \A k \in DOMAIN ret[1].visited :
            (~RAB_IsSurfaceValid(NeighborSurfaceOf(k)) \/ ~SourceReservoirIsValid)
                => NeighborSkipped(ret[1].visited[k].i)

\* The pass ran with basic or ray-traced bias correction
BiasCorrectedMaskPassDone ==
    /\ MaskPassDone
    /\ call.tparams.biasCorrectionMode \in {RTXDI_BIAS_CORRECTION_BASIC, RTXDI_BIAS_CORRECTION_RAY_TRACED}

\* The neighbours for which the second loop added ps * M to piSum
Reweighted == { ret[1].revisited[k].i : k \in DOMAIN ret[1].revisited }

\* C22 as stated: in the spatial and fused passes with basic or ray-traced bias
\* correction the bit of neighbour i is set in cachedResult if and only if neighbour i
\* was combined into the output reservoir by the first loop, so the second loop adds
\* ps * M to piSum only for neighbours that were combined and for none that was skipped.
C22_Original_BitSetIffCombined ==
    BiasCorrectedMaskPassDone =>
        /\ ret[1].recorded = ret[1].streamed
        /\ Reweighted \subseteq ret[1].streamed

----------------------------------------------------------------------------
(* Claims about discounting naive samples *)

\* A DI pass that takes the flag has run with discountNaiveSamples set: spatial and
\* fused, each with the neighbour mask or with pairwise MIS
DiscountingPassDone ==
    /\ PassDone
    /\ call.fn \in {"DISpatialResampling", "DISpatioTemporalResampling"}
    /\ call.tparams.discountNaiveSamples

\* A valid reservoir of at most RTXDI_NAIVE_SAMPLING_M_THRESHOLD candidates
NaiveSample(r) == RTXDI_IsValidDIReservoir(r) /\ r.M <= RTXDI_NAIVE_SAMPLING_M_THRESHOLD

\* C24 as stated: with discountNaiveSamples enabled no valid neighbour reservoir with
\* M <= RTXDI_NAIVE_SAMPLING_M_THRESHOLD is streamed into the output reservoir by the
\* neighbour loop of any DI pass that takes the flag (spatial, spatial pairwise, fused,
\* fused pairwise).
C24_Original_NaiveSamplesNeverStreamed ==
    DiscountingPassDone => \A r \in ret[1].streamedSamples : ~NaiveSample(r)

----------------------------------------------------------------------------
(* Invocations of the spatial and fused passes at the edge of the view and with
   checkerboard rendering *)

\* Pixels on the left and right edge of the view, and one inside
NeighborhoodPixels ==
    { [x |-> 0, y |-> 1], [x |-> 0, y |-> 2], [x |-> ViewSize - 1, y |-> 3],
      [x |-> ViewSize - 1, y |-> 4], ShadedPixel }

NeighborhoodParameters ==
    [ activeCheckerboardField : {0, 1, 2}, neighborOffsetMask : {Len(NeighborOffsets) - 1} ]

\* The previous frame shows the shaded surface everywhere, or only at ShadedPixel
NeighborhoodScenes ==
    [ origin : {ShadedPixel}, region : {"center"}, inside : {CurrentSurface},
      outside : {CurrentSurface, OtherNormalSurface}, lights : {"same"} ]

\* Passes that look at every neighbour offset
NeighborhoodSamples(s) ==
    /\ s.numSamples = (IF s.biasCorrectionMode = RTXDI_BIAS_CORRECTION_PAIRWISE
                       THEN Len(NeighborOffsets) - 1 ELSE MaxSamples)
    /\ s.numDisocclusionBoostSamples = 0
    /\ ~s.discountNaiveSamples

NeighborhoodCalls ==
    [ fn : {"GISpatialResampling"}, pixelPosition : NeighborhoodPixels, params : NeighborhoodParameters,
      tparams : { s \in GISpatialResamplingParameters : s.numSamples = MaxSamples },
      inputReservoir : {RTXDI_MakeGIReservoir(0, 0, 1, FloatOne)},
      scene : NeighborhoodScenes, rng : RngStates, visibility : {TRUE},
      prevReservoir : GIResamplingHistory ]
    \cup
    [ fn : {"GISpatioTemporalResampling"}, pixelPosition : NeighborhoodPixels, params : NeighborhoodParameters,
      tparams : { s \in GISpatioTemporalResamplingParameters : s.numSpatialSamples = MaxSamples },
      inputReservoir : {RTXDI_MakeGIReservoir(0, 0, 1, FloatOne)},
      scene : NeighborhoodScenes, rng : RngStates, visibility : {TRUE},
      prevReservoir : GIResamplingHistory ]
    \cup
    [ fn : {"DISpatialResampling"}, pixelPosition : NeighborhoodPixels, params : NeighborhoodParameters,
      tparams : { s \in DISpatialResamplingParameters : NeighborhoodSamples(s) },
      inputReservoir : { r \in DISingleInitialSamples : r.M = 1 },
      scene : NeighborhoodScenes, rng : RngStates, visibility : {TRUE},
      prevReservoir : { r \in DINeighbors : r.M > 1 } ]
    \cup
    [ fn : {"DISpatioTemporalResampling"}, pixelPosition : NeighborhoodPixels, params : NeighborhoodParameters,
      tparams : { s \in DISpatioTemporalResamplingParameters : NeighborhoodSamples(s) },
      inputReservoir : { r \in DISingleInitialSamples : r.M = 1 },
      scene : NeighborhoodScenes, rng : RngStates, visibility : {TRUE},
      prevReservoir : { r \in DINeighbors : r.M > 1 } ]

\* A pass is invoked for a pixel that is active in the current frame's field
NeighborhoodInit ==
    /\ driven = "none"
    /\ di = ReSTIRDIContext_ctor([ CheckerboardSamplingMode |-> "Off",
                                    NeighborOffsetCount |-> NeighborOffsetCount ])
    /\ gi = ReSTIRGIContext_ctor([ CheckerboardSamplingMode |-> "Off" ])
    /\ lastCall = "ctor"
    /\ before = di
    /\ frames = << >>
    /\ call \in NeighborhoodCalls
    /\ RTXDI_IsActiveCheckerboardPixel(ToUint2(call.pixelPosition), FALSE,
                                       call.params.activeCheckerboardField)
    /\ ret = << >>

NeighborhoodNext ==
    \/ GISpatialResamplingPass
    \/ GISpatioTemporalResamplingPass
    \/ DISpatialResamplingPass
    \/ DISpatioTemporalResamplingPass

SpecNeighborhood == NeighborhoodInit /\ [][NeighborhoodNext]_vars

----------------------------------------------------------------------------
(* Claims about the positions of the neighbours *)

----------------------------------------------------------------------------
(* Claims about the phases of the fused GI pass *)

GIFusedPassDone == PassDone /\ call.fn = "GISpatioTemporalResampling"

\* The sample indices the first loop evaluated, in order
EvaluatedIndices == [ k \in DOMAIN ret[1].visited |-> ret[1].visited[k].i ]

Evaluated == { EvaluatedIndices[k] : k \in DOMAIN EvaluatedIndices }

\* A temporal sample 0..4 found a surface with a valid reservoir
TemporalPhaseFound == ret[1].foundAt \in 0 .. temporalSampleCount - 1

\* C25: in the fused GI pass at most one of the sample indices 0..5 is combined into
\* the output; once an index 0..4 has found a valid temporal reservoir no further index
\* below 6 is evaluated, the fallback included; the fallback index 5 is evaluated if
\* and only if enableFallbackSampling is set and no index 0..4 found one, and exactly
\* then the search centre is moved to the current pixel; the spatial indices
\* 6..totalSampleCount-1 are all evaluated afterwards, each once, and the loop ends.
C25_FusedGIPhases ==
    GIFusedPassDone =>
        /\ Cardinality(ret[1].streamed \cap (0 .. totalTemporalSampleCount - 1)) <= 1
        /\ TemporalPhaseFound =>
               Evaluated \cap (0 .. totalTemporalSampleCount - 1) = 0 .. ret[1].foundAt
        /\ (temporalSampleCount \in Evaluated)
               <=> (call.tparams.enableFallbackSampling /\ ~TemporalPhaseFound)
        /\ ret[1].usingFallback <=> (temporalSampleCount \in Evaluated)
        /\ (totalTemporalSampleCount .. ret[1].iterations - 1) \subseteq Evaluated
        /\ \A j, k \in DOMAIN EvaluatedIndices : j < k => EvaluatedIndices[j] < EvaluatedIndices[k]
        /\ \A i \in Evaluated : i < ret[1].iterations

\* The third temporal sample found the surface and was combined; the spatial samples
\* followed
C25_Witness ==
    /\ GIFusedPassDone
    /\ ret[1].foundAt \in 1 .. temporalSampleCount - 1
    /\ ret[1].foundAt \in ret[1].streamed
    /\ call.tparams.enableFallbackSampling
    /\ Cardinality(Evaluated) > totalTemporalSampleCount

----------------------------------------------------------------------------
(* Claims about the canonical sample of the pairwise passes *)

\* A DI pass with pairwise MIS has run: spatial pairwise or fused pairwise
PairwisePassDone ==
    /\ PassDone
    /\ call.fn \in {"DISpatialResampling", "DISpatioTemporalResampling"}
    /\ call.tparams.biasCorrectionMode = RTXDI_BIAS_CORRECTION_PAIRWISE

\* The canonical reservoir is valid, with a positive target PDF and a positive weight
CanonicalUsable ==
    /\ RTXDI_IsValidDIReservoir(call.inputReservoir)
    /\ ~FloatLe(call.inputReservoir.targetPdf, FloatZero)
    /\ ~FloatLe(call.inputReservoir.weightSum, FloatZero)

\* C26 as stated: in the DI pairwise-MIS passes (spatial pairwise and fused pairwise),
\* when no neighbour was streamed into the reservoir, a valid canonical reservoir with
\* positive target PDF is returned as the output sample with its M and with a nonzero
\* weightSum equal to the canonical's: the canonical contribution is never lost.
C26_Original_CanonicalNeverLost ==
    (PairwisePassDone /\ CanonicalUsable /\ ret[1].streamedSamples = {}) =>
        /\ ret[1].state.lightData = call.inputReservoir.lightData
        /\ ret[1].state.uvData = call.inputReservoir.uvData
        /\ ret[1].state.M = call.inputReservoir.M
        /\ ret[1].state.weightSum = call.inputReservoir.weightSum
        /\ ret[1].state.weightSum /= FloatZero

----------------------------------------------------------------------------
(* Claims about the per-frame random number *)

\* The context the host drives
DrivenContext == IF driven = "DI" THEN di ELSE gi

\* C27 as stated: in every reachable state of ReSTIRDIContext and ReSTIRGIContext,
\* directly after construction and after any interleaving of SetFrameIndex and
\* SetTemporalResamplingParameters, the temporal resampling parameters the context
\* returns carry uniformRandomNumber = JenkinsHash(current frame index).
C27_Original_RandomNumberIsHashOfFrame ==
    DrivenContext.m_temporalResamplingParams.uniformRandomNumber
        = JenkinsHash(DrivenContext.m_frameIndex)

----------------------------------------------------------------------------
(* Claims about permutation sampling and the checkerboard *)

\* RTXDI_ApplyPermutationSampling has been applied to call.prevPixelPos
PermutationApplied == call.fn = "ApplyPermutationSampling" /\ Len(ret) >= 1

\* (p.x + p.y) & 1 of an int2
PixelParity(p) == (p.x + p.y) % 2

Abs(a) == IF a < 0 THEN -a ELSE a

\* C28: permutation sampling preserves checkerboard parity and locality. For every
\* pixel p and random number the permuted pixel p' has (p'.x + p'.y) & 1 equal to
\* (p.x + p.y) & 1, so p' is active for a field and frame exactly when p is, and
\* |p'.x - p.x| <= 3 and |p'.y - p.y| <= 3.
C28_PermutationKeepsParityAndLocality ==
    PermutationApplied =>
        /\ PixelParity(ret[1]) = PixelParity(call.prevPixelPos)
        /\ \A f \in Fields, previousFrame \in BOOLEAN :
              RTXDI_IsActiveCheckerboardPixel(ToUint2(ret[1]), previousFrame, f)
                  = RTXDI_IsActiveCheckerboardPixel(ToUint2(call.prevPixelPos), previousFrame, f)
        /\ Abs(ret[1].x - call.prevPixelPos.x) <= 3
        /\ Abs(ret[1].y - call.prevPixelPos.y) <= 3

\* An active pixel of field 1 left of the view is moved by three pixels in x and by
\* one in y
C28_Witness ==
    /\ PermutationApplied
    /\ call.prevPixelPos.x < 0
    /\ RTXDI_IsActiveCheckerboardPixel(ToUint2(call.prevPixelPos), FALSE, 1)
    /\ Abs(ret[1].x - call.prevPixelPos.x) = 3
    /\ Abs(ret[1].y - call.prevPixelPos.y) = 1

\* Pixels of the view: positions that can hold a reservoir
OnScreenPixels == { p \in Pixels : p.x >= 0 /\ p.y >= 0 }

\* The pixels the shaders of a frame treat as active in the previous frame, and the
\* pixels that hold reservoirs in a frame, for a checkerboard field
PreviousFrameActive(field) ==
    { p \in OnScreenPixels : RTXDI_IsActiveCheckerboardPixel(ToUint2(p), TRUE, field) }
CurrentFrameActive(field) ==
    { p \in OnScreenPixels : RTXDI_IsActiveCheckerboardPixel(ToUint2(p), FALSE, field) }

\* SetFrameIndex has just moved a checkerboarded ReSTIRDIContext from one frame to the next
CheckerboardFrameAdvanced ==
    /\ driven = "DI"
    /\ lastCall = "SetFrameIndex"
    /\ di.m_staticParams.CheckerboardSamplingMode /= "Off"

\* C29: cross-frame checkerboard consistency. The field f of a checkerboarded
\* ReSTIRDIContext is 1 or 2, and a pixel is active for the previous frame with field f
\* iff it is active for the current frame with the other field 3 - f; and after
\* SetFrameIndex the pixels treated as previous-frame-active in the new frame are
\* exactly the pixels that held reservoirs in the frame before, if and only if the two
\* frame indices differ in parity.
C29_CrossFrameCheckerboardConsistency ==
    CheckerboardFrameAdvanced =>
        LET f == di.m_runtimeParams.activeCheckerboardField
        IN /\ f \in {1, 2}
           /\ PreviousFrameActive(f) = CurrentFrameActive(3 - f)
           /\ (before.m_frameIndex % 2 /= di.m_frameIndex % 2)
                 <=> (PreviousFrameActive(f)
                         = CurrentFrameActive(before.m_runtimeParams.activeCheckerboardField))

\* Frame 1 followed by frame 2 with a Black checkerboard: the field goes from 1 to 2
\* and the pixels of odd x + y, which held reservoirs in frame 1, are the previous-frame
\* pixels of frame 2
C29_Witness ==
    /\ CheckerboardFrameAdvanced
    /\ di.m_staticParams.CheckerboardSamplingMode = "Black"
    /\ before.m_frameIndex = 1
    /\ di.m_frameIndex = 2
    /\ [x |-> 0, y |-> 1] \in PreviousFrameActive(di.m_runtimeParams.activeCheckerboardField)
    /\ [x |-> 0, y |-> 0] \notin PreviousFrameActive(di.m_runtimeParams.activeCheckerboardField)

----------------------------------------------------------------------------
(* Claims about neighbour positions *)

\* A spatial or fused pass has run
NeighborPassDone ==
    /\ PassDone
    /\ call.fn \in {"GISpatialResampling", "GISpatioTemporalResampling",
                    "DISpatialResampling", "DISpatioTemporalResampling"}

FusedPairwisePassDone ==
    /\ PassDone
    /\ call.fn = "DISpatioTemporalResampling"
    /\ call.tparams.biasCorrectionMode = RTXDI_BIAS_CORRECTION_PAIRWISE

\* Sample i of the pass is a spatial neighbour, whose position is clamped into the view
\* and then moved to an active checkerboard pixel; the temporal samples of the fused
\* passes are not clamped
ClampedNeighbor(i) ==
    CASE call.fn = "GISpatioTemporalResampling" -> i >= totalTemporalSampleCount
      [] call.fn = "DISpatioTemporalResampling" /\ ~FusedPairwisePassDone ->
             ~(i = 0 /\ ret[1].foundTemporalSurface)
      [] OTHER -> TRUE

\* [0, W) x [0, H)
InsideView(p) == p.x \in 0 .. ViewSize - 1 /\ p.y \in 0 .. ViewSize - 1

\* C30 as stated: in the spatial and fused passes, after RAB_ClampSamplePositionIntoView
\* followed by RTXDI_ActivateCheckerboardPixel the neighbour pixel position is still
\* inside [0, W) x [0, H) for every field in {0, 1, 2}; likewise every reservoir load of
\* the DI fused pairwise pass is at a position inside the view.
C30_Original_NeighborPositionsInsideView ==
    NeighborPassDone =>
        /\ \A k \in DOMAIN ret[1].visited :
              ClampedNeighbor(ret[1].visited[k].i) => InsideView(ret[1].visited[k].idx)
        /\ FusedPairwisePassDone => \A p \in ret[1].loads : InsideView(p)

====
